---- MODULE Spec2Model ----
(***************************************************************************)
(* Dataset risk-analysis engine of the coastal-threat backend              *)
(* (backend/app/services/ml_service.py, backend/app/routes/ml.py,          *)
(* backend/app/routes/upload.py).                                          *)
(*                                                                         *)
(* Numbers are fixed point: a cell value v stands for v / Scale, so the    *)
(* literal 1 of the code is Scale.  Comparisons against mean +/- k*std are *)
(* done exactly on integers (no square root is taken); quantities that the *)
(* code only reports (prediction values, confidences) are kept in finer    *)
(* fixed-point units and rounded down.                                     *)
(***************************************************************************)
EXTENDS Integers, Sequences, FiniteSets, TLC

(***************************************************************************)
(* Bounds of the model.                                                    *)
(***************************************************************************)
MaxCols == 2          \* columns of a table drawn for schema detection
MaxRows == 2          \* rows of a table drawn for schema detection
MaxTargetRows == 6    \* rows of a table drawn for the risk assessor
MaxClock == 2         \* readings of datetime.now() in one behaviour
MaxHashSeed == 1      \* hash seeds 0..MaxHashSeed a process may start with
MaxAddr == 1          \* layouts 0..MaxAddr of the boxed cells of an object array
MaxInflight == 1      \* analyze-dataset requests waiting at the same time
MaxRowCount == 1250    \* rows of the longest table analysed
MaxMinutes == 7        \* minutes the clock of the DataService runs for
MaxVersion == 2        \* contents the database goes through
MaxCalls == 2          \* get_cached_data calls in one behaviour
MaxSockets == 3        \* websockets that connect

Scale == 10           \* fixed-point unit: the number 1.0 of the code

(***************************************************************************)
(* Column names are sequences of characters, so that the keyword tests of  *)
(* detect_schema are real substring tests on the lower-cased name.         *)
(***************************************************************************)
LowerChars == <<"a","b","c","d","e","f","g","h","i","j","k","l","m",
                "n","o","p","q","r","s","t","u","v","w","x","y","z","_">>
UpperChars == <<"A","B","C","D","E","F","G","H","I","J","K","L","M",
                "N","O","P","Q","R","S","T","U","V","W","X","Y","Z","_">>

IndexIn(c, chars) == CHOOSE i \in 1..Len(chars) : chars[i] = c

IsUpper(c) == \E i \in 1..Len(UpperChars) : UpperChars[i] = c /\ c # "_"

\* str.lower() on one character
LowerChar(c) == IF IsUpper(c) THEN LowerChars[IndexIn(c, UpperChars)] ELSE c

\* col.lower()
Lower(name) == [i \in 1..Len(name) |-> LowerChar(name[i])]

\* keyword in col_lower
Contains(s, kw) ==
    \E off \in 0..(Len(s) - Len(kw)) :
        \A i \in 1..Len(kw) : s[off + i] = kw[i]

ContainsAny(s, kws) == \E kw \in kws : Contains(s, kw)

TimeKeywords ==
    { <<"t","i","m","e">>, <<"d","a","t","e">>,
      <<"t","i","m","e","s","t","a","m","p">> }

FeatureKeywords ==
    { <<"l","e","v","e","l">>, <<"h","e","i","g","h","t">>,
      <<"s","p","e","e","d">>, <<"p","r","e","s","s","u","r","e">>,
      <<"t","e","m","p","e","r","a","t","u","r","e">>,
      <<"h","u","m","i","d","i","t","y">> }

TargetKeywords ==
    { <<"r","i","s","k">>, <<"t","h","r","e","a","t">>,
      <<"d","a","n","g","e","r">>, <<"a","l","e","r","t">>,
      <<"s","c","o","r","e">> }

\* the name of the synthesized target column
SyntheticName ==
    <<"s","y","n","t","h","e","t","i","c","_","r","i","s","k","_",
      "s","c","o","r","e">>

\* the column names tables are drawn from
N_risk_score == <<"r","i","s","k","_","s","c","o","r","e">>
N_Threat_Level == <<"T","h","r","e","a","t","_","L","e","v","e","l">>
N_wind_speed == <<"w","i","n","d","_","s","p","e","e","d">>
N_timestamp == <<"t","i","m","e","s","t","a","m","p">>
N_alert_time == <<"a","l","e","r","t","_","t","i","m","e">>
N_id == <<"i","d">>
N_pressure == <<"p","r","e","s","s","u","r","e">>
N_humidity == <<"h","u","m","i","d","i","t","y">>
N_temperature == <<"t","e","m","p","e","r","a","t","u","r","e">>
N_height == <<"h","e","i","g","h","t">>
N_water_level == <<"w","a","t","e","r","_","l","e","v","e","l">>

ColumnNames ==
    { N_risk_score, N_Threat_Level, N_wind_speed, N_timestamp, N_id }

(***************************************************************************)
(* Tables (pandas DataFrames).  A cell is a number, a missing value (NaN / *)
(* NaT) or a text that is no number and no date.  A table holds its column *)
(* names in order, one dtype and one cell sequence per column, and its row *)
(* count.                                                                  *)
(***************************************************************************)
Num(v) == [k |-> "num", v |-> v]
NaN == [k |-> "nan", v |-> 0]
Txt == [k |-> "str", v |-> 0]
Date(h) == [k |-> "date", v |-> h]

IsNum(c) == c.k = "num"
IsDate(c) == c.k = "date"

NoName == << >>       \* Python None where a column name is expected

ColIndex(df, name) == CHOOSE j \in 1..Len(df.columns) : df.columns[j] = name

\* name in df.columns
HasColumn(df, name) == \E j \in 1..Len(df.columns) : df.columns[j] = name

\* df[name]
Column(df, name) == df.cells[ColIndex(df, name)]

\* series.dropna(), as the sequence of the numbers present
DropNa(cells) ==
    LET present == SelectSeq(cells, IsNum)
    IN  [i \in 1..Len(present) |-> present[i].v]

RECURSIVE SumRange(_, _, _)
SumRange(xs, lo, hi) ==
    IF lo > hi THEN 0
    ELSE IF lo = hi THEN xs[lo]
    ELSE LET mid == (lo + hi) \div 2
         IN  SumRange(xs, lo, mid) + SumRange(xs, mid + 1, hi)

SumSeq(xs) == SumRange(xs, 1, Len(xs))

SumSq(xs) == SumSeq([i \in 1..Len(xs) |-> xs[i] * xs[i]])

Min2(a, b) == IF b < a THEN b ELSE a     \* Python min(a, b)
Max2(a, b) == IF b > a THEN b ELSE a     \* Python max(a, b)

RECURSIVE MinRange(_, _, _)
MinRange(xs, lo, hi) ==
    IF lo = hi THEN xs[lo]
    ELSE Min2(MinRange(xs, lo, (lo + hi) \div 2),
              MinRange(xs, (lo + hi) \div 2 + 1, hi))

RECURSIVE MaxRange(_, _, _)
MaxRange(xs, lo, hi) ==
    IF lo = hi THEN xs[lo]
    ELSE Max2(MaxRange(xs, lo, (lo + hi) \div 2),
              MaxRange(xs, (lo + hi) \div 2 + 1, hi))

\* series.min() and series.max() of a series without missing values
SeqMin(xs) == MinRange(xs, 1, Len(xs))
SeqMax(xs) == MaxRange(xs, 1, Len(xs))

RoundDiv(a, b) == (2 * a + b) \div (2 * b)        \* round(a / b), b > 0

\* (hi - lo).days for two cells of a datetime column
SpanDays(lo, hi) == IF IsDate(hi) THEN (hi.v - lo.v) \div 24 ELSE 0

\* the rows of df[[datetime_col, col]].dropna()
PairedRows(times, cells) ==
    SelectSeq([i \in 1..Len(cells) |-> i],
              LAMBDA i : (IsNum(times[i]) \/ IsDate(times[i])) /\ IsNum(cells[i]))

CellWith(ts, v) == ts[CHOOSE i \in 1..Len(ts) : ts[i].v = v]

\* the cells of ts with the least and the greatest time
Extremes(ts) ==
    << CellWith(ts, SeqMin([i \in 1..Len(ts) |-> ts[i].v] \o << >>)),
       CellWith(ts, SeqMax([i \in 1..Len(ts) |-> ts[i].v] \o << >>)) >>

RECURSIVE ISqrtIn(_, _, _)
ISqrtIn(v, lo, hi) ==
    IF lo >= hi THEN lo
    ELSE LET mid == (lo + hi + 1) \div 2
         IN  IF mid * mid <= v THEN ISqrtIn(v, mid, hi) ELSE ISqrtIn(v, lo, mid - 1)

ISqrt(v) == ISqrtIn(v, 0, 46340)

(***************************************************************************)
(* Order statistics.  Series.quantile(q) interpolates linearly between the *)
(* two order statistics around position (n - 1) * q; for q in quarters the *)
(* operators below give four times the quantile, an integer.               *)
(***************************************************************************)
IsSorted(xs) == \A i \in 1..(Len(xs) - 1) : xs[i] <= xs[i + 1]

\* the k-th smallest of xs (k from 1)
KthSmallest(xs, k) ==
    IF IsSorted(xs) THEN xs[k]
    ELSE CHOOSE v \in {xs[i] : i \in 1..Len(xs)} :
             /\ Cardinality({i \in 1..Len(xs) : xs[i] < v}) < k
             /\ Cardinality({i \in 1..Len(xs) : xs[i] <= v}) >= k

\* 4 * xs.quantile(quarters / 4), xs not empty
Quantile4(xs, quarters) ==
    LET pos == (Len(xs) - 1) * quarters
        lo == pos \div 4
        frac == pos % 4
        below == KthSmallest(xs, lo + 1)
    IN  IF frac = 0 THEN 4 * below
        ELSE 4 * below + frac * (KthSmallest(xs, lo + 2) - below)

\* the positions of xs outside [Q1 - 1.5 * IQR, Q3 + 1.5 * IQR]
IqrOutliers(xs) ==
    LET Q1 == Quantile4(xs, 1)
        Q3 == Quantile4(xs, 3)
        IQR == Q3 - Q1
    IN  {i \in 1..Len(xs) : \/ 8 * xs[i] < 2 * Q1 - 3 * IQR
                            \/ 8 * xs[i] > 2 * Q3 + 3 * IQR}

\* a / b * 100 rounded to the given number of decimals, in units of the
\* last decimal
Percentage(a, b, decimals) ==
    LET unit == IF decimals = 1 THEN 1000 ELSE IF decimals = 2 THEN 10000 ELSE 100000
    IN  (2 * a * unit + b) \div (2 * b)

\* series.isna().all()  (true of an empty series)
AllNaN(cells) == \A i \in 1..Len(cells) : ~IsNum(cells[i])

\* pd.to_numeric(series, errors='coerce'): what is no number becomes NaN
to_numeric(cells) ==
    [i \in 1..Len(cells) |-> IF IsNum(cells[i]) THEN cells[i] ELSE NaN]

\* pd.to_datetime(series, errors='coerce'): numbers are epoch offsets, a
\* date text is its date, what does not parse becomes NaT
to_datetime(cells) ==
    [i \in 1..Len(cells) |->
        IF IsNum(cells[i]) \/ IsDate(cells[i]) THEN cells[i] ELSE NaN]

\* series.dropna() of a datetime column, as the sequence of the times present
\* (all of them epoch offsets, or all of them dates)
TimesPresent(cells) ==
    LET present == SelectSeq(cells, LAMBDA c : IsNum(c) \/ IsDate(c))
    IN  [i \in 1..Len(present) |-> present[i].v]

(***************************************************************************)
(* Python's hash() of a str is salted per process (PYTHONHASHSEED): it is  *)
(* a function of the characters and of the process's hash seed.            *)
(***************************************************************************)
CharCode(c) ==
    IF IsUpper(c) THEN 27 + IndexIn(c, UpperChars) ELSE IndexIn(c, LowerChars)

RECURSIVE MixChars(_, _)
MixChars(h, s) ==
    IF s = << >> THEN h
    ELSE MixChars((h * 31 + CharCode(Head(s))) % 65521, Tail(s))

\* hash(feature) for a column name
PyHashName(name, hashseed) == MixChars((hashseed * 7919 + 17) % 65521, name)

(***************************************************************************)
(* MLService._create_synthetic_risk_score: a weighted sum of the min-max   *)
(* normalized feature columns, itself min-max normalized.  Weights are in  *)
(* 1/10000, normalized features in 1/1000, the returned cells in 1/Scale.  *)
(***************************************************************************)
\* feature_weights[feature] = 0.1 + (hash(feature) % 1000 / 1000) * 0.8
FeatureWeight(feature, hashseed) == 1000 + 8 * (PyHashName(feature, hashseed) % 1000)

\* (feature_data - min) / (max - min) at row i, feature_data = fillna(mean);
\* 0 when the feature is skipped (std not > 0: constant, single or all-NaN)
NormalizedFeature(cells, i) ==
    LET xs == DropNa(cells)
        k == Len(xs)
    IN  IF k = 0 \/ Len(cells) < 2 THEN 0
        ELSE LET lo == SeqMin(xs)
                 hi == SeqMax(xs)
             IN  IF hi = lo THEN 0
                 ELSE IF IsNum(cells[i])
                      THEN (1000 * (cells[i].v - lo)) \div (hi - lo)
                      ELSE (1000 * (SumSeq(xs) - k * lo)) \div (k * (hi - lo))

RECURSIVE WeightedSum(_, _, _, _)
WeightedSum(df, features, i, hashseed) ==
    IF features = << >> THEN 0
    ELSE LET f == Head(features)
         IN  (IF HasColumn(df, f)
              THEN NormalizedFeature(Column(df, f), i) * FeatureWeight(f, hashseed)
              ELSE 0)
             + WeightedSum(df, Tail(features), i, hashseed)

_create_synthetic_risk_score(df, features, hashseed) ==
    LET raw == [i \in 1..df.n |-> WeightedSum(df, features, i, hashseed)] \o << >>
    IN  IF df.n = 0 THEN << >>
        ELSE LET lo == SeqMin(raw)
                 hi == SeqMax(raw)
             IN  [i \in 1..df.n |->
                    IF hi > lo
                    THEN Num((Scale * (raw[i] - lo)) \div (hi - lo))
                    ELSE Num((Scale * raw[i]) \div 10000000)]

(***************************************************************************)
(* MLService.detect_schema.  The loop over the columns coerces the table   *)
(* in place (df[col] = pd.to_datetime / pd.to_numeric) and fills the       *)
(* schema; the last column matching a target keyword is the target.        *)
(***************************************************************************)
EmptySchema(df) ==
    [ columns |-> df.columns,
      numeric_columns |-> << >>,
      categorical_columns |-> << >>,
      datetime_columns |-> << >>,
      potential_features |-> << >>,
      potential_target |-> NoName ]

\* one iteration of "for col in df.columns" on column j
SchemaColumn(st, j) ==
    LET df == st.df
        sc == st.schema
        col == df.columns[j]
        col_lower == Lower(col)
        isTime == ContainsAny(col_lower, TimeKeywords)
        isObject == df.dtype[j] = "object"
        coerced == IF isTime THEN to_datetime(df.cells[j])
                   ELSE IF isObject THEN to_numeric(df.cells[j])
                   ELSE df.cells[j]
        isNumeric == /\ ~isTime
                     /\ df.dtype[j] \in {"int64", "float64", "object"}
                     /\ (isObject => ~AllNaN(coerced))
        df2 == [df EXCEPT !.cells[j] = coerced,
                          !.dtype[j] = IF isTime THEN "datetime64"
                                       ELSE IF isObject THEN "float64"
                                       ELSE @]
        sc2 == [sc EXCEPT
                  !.datetime_columns = IF isTime THEN Append(@, col) ELSE @,
                  !.numeric_columns = IF isNumeric THEN Append(@, col) ELSE @,
                  !.potential_features =
                      IF ContainsAny(col_lower, FeatureKeywords)
                      THEN Append(@, col) ELSE @,
                  !.potential_target =
                      IF ContainsAny(col_lower, TargetKeywords) THEN col ELSE @]
    IN  [df |-> df2, schema |-> sc2]

RECURSIVE SchemaLoop(_, _)
SchemaLoop(st, j) ==
    IF j > Len(st.df.columns) THEN st ELSE SchemaLoop(SchemaColumn(st, j), j + 1)

\* mutant of NeedsSyntheticTarget: a target that is no numeric column is
\* treated as no target
NeedsSyntheticTarget_NonNumeric(schema) ==
    ~\E j \in 1..Len(schema.numeric_columns) :
        schema.numeric_columns[j] = schema.potential_target

\* "if not schema['potential_target']": no target column was found
NeedsSyntheticTarget(schema) == schema.potential_target = NoName

\* "if schema['potential_features']": the synthetic column is built (and added)
BuildsSyntheticColumn(schema) == schema.potential_features # << >>

\* returns the schema, the table as coerced (and extended) in place, and the
\* number of calls made to _create_synthetic_risk_score
detect_schema(df0, hashseed) ==
    LET st == SchemaLoop([df |-> df0, schema |-> EmptySchema(df0)], 1)
    IN  IF NeedsSyntheticTarget(st.schema)
        THEN LET sc == [st.schema EXCEPT !.potential_target = SyntheticName]
             IN  IF BuildsSyntheticColumn(sc)
                 THEN [ schema |-> sc,
                        df |-> [ columns |-> Append(st.df.columns, SyntheticName),
                                 dtype |-> Append(st.df.dtype, "float64"),
                                 cells |-> Append(st.df.cells,
                                     _create_synthetic_risk_score(
                                         st.df, sc.potential_features, hashseed)),
                                 n |-> st.df.n ],
                        synthetic_calls |-> 1 ]
                 ELSE [schema |-> sc, df |-> st.df, synthetic_calls |-> 0]
        ELSE [schema |-> st.schema, df |-> st.df, synthetic_calls |-> 0]

(***************************************************************************)
(* Machine integers.  pd.to_numeric of a datetime64[ns] column gives int64 *)
(* nanoseconds since the epoch; the sums, products and powers numpy takes  *)
(* of int64 values wrap modulo 2^64 (two's complement).  A number is held  *)
(* as a sequence of limbs in base 2^13, lowest first: an int64 in five     *)
(* limbs, the highest one below 2^12 (4 * 13 + 12 = 64 bits); a number of  *)
(* which nothing is cut off in WideLimbs limbs.  Digit sequences are       *)
(* written s \o << >> where that makes the checker hold them as tuples.    *)
(***************************************************************************)
LimbBase == 8192
Int64Limbs == 5
Int64Top == 4096
WideLimbs == 16

\* the limbs k.. of the digit sequence c, a carry coming in
RECURSIVE Propagate(_, _, _)
Propagate(c, k, carry) ==
    IF k > Len(c) THEN << >>
    ELSE <<(c[k] + carry) % LimbBase>>
             \o Propagate(c, k + 1, (c[k] + carry) \div LimbBase)

\* the digit sequence c reduced to limbs, the highest one modulo top
Reduce(c, top) == [Propagate(c, 1, 0) EXCEPT ![Len(c)] = @ % top]

Limbs(c, top) == Reduce(c \o << >>, top)

FromInt(v, len, top) == Limbs([k \in 1..len |-> IF k = 1 THEN v ELSE 0], top)

LimbAdd(a, b, top) == Limbs([k \in 1..Len(a) |-> a[k] + b[k]], top)

LimbSub(a, b, top) == Limbs([k \in 1..Len(a) |-> a[k] - b[k]], top)

LimbMul(a, b, top) ==
    Limbs([k \in 1..Len(a) |->
              SumSeq([i \in 1..k |-> a[i] * b[k + 1 - i]] \o << >>)], top)

\* a times the integer v, v of less than 18 bits
LimbScale(a, v, top) == Limbs([k \in 1..Len(a) |-> a[k] * v], top)

LimbSum(terms, len, top) ==
    Limbs([k \in 1..len |->
              SumSeq([i \in 1..Len(terms) |-> terms[i][k]] \o << >>)], top)

IsNegative(a, top) == a[Len(a)] >= top \div 2

IsZero(a) == \A k \in 1..Len(a) : a[k] = 0

\* int64 arithmetic, wrapping
Int64(v) == FromInt(v, Int64Limbs, Int64Top)
Add64(a, b) == LimbAdd(a, b, Int64Top)
Sub64(a, b) == LimbSub(a, b, Int64Top)
Mul64(a, b) == LimbMul(a, b, Int64Top)
Scale64(a, v) == LimbScale(a, v, Int64Top)
Sum64(terms) == LimbSum(terms, Int64Limbs, Int64Top)

\* arithmetic on numbers too small to wrap
Wide(v) == FromInt(v, WideLimbs, LimbBase)
SubW(a, b) == LimbSub(a, b, LimbBase)
MulW(a, b) == LimbMul(a, b, LimbBase)
ScaleW(a, v) == LimbScale(a, v, LimbBase)
SumW(terms) == LimbSum(terms, WideLimbs, LimbBase)
IsNegativeW(a) == IsNegative(a, LimbBase)
Magnitude(a) == IF IsNegativeW(a) THEN SubW(Wide(0), a) ELSE a
LessW(a, b) == IsNegativeW(SubW(a, b))
IsPositive(a) == ~IsZero(a) /\ ~IsNegativeW(a)

\* the value of an int64, kept with its sign
Widen(a) ==
    [k \in 1..WideLimbs |->
        IF k < Int64Limbs THEN a[k]
        ELSE IF IsNegative(a, Int64Top)
             THEN IF k = Int64Limbs THEN a[k] + (LimbBase - Int64Top)
                  ELSE LimbBase - 1
             ELSE IF k = Int64Limbs THEN a[k] ELSE 0] \o << >>

(***************************************************************************)
(* MLService._assess_risk_patterns: thresholds fitted to the target's own  *)
(* distribution and the overall level.  For the n numbers xs present in    *)
(* the target, with S their sum and Q the sum of their squares,            *)
(*     n * (x - mean) = n*x - S     and     n*(n-1) * std^2 = n*Q - S^2    *)
(* (Series.std() has ddof = 1), so  x - mean > k*std  is decided on        *)
(* integers.  std is NaN for a single value; Python's min(1, NaN) is 1 and *)
(* max(0, NaN) is 0.                                                       *)
(***************************************************************************)
\* of the numbers xs of the target column: how many, their sum, and
\* n * sum(x^2) - sum(x)^2, which is n * (n - 1) * std^2
TargetStats(xs) ==
    [ n |-> Len(xs),
      sum |-> SumSeq(xs),
      var_num |-> Len(xs) * SumSq(xs) - SumSeq(xs) * SumSeq(xs) ]

VarianceNumerator(xs) == TargetStats(xs).var_num

\* mean and std of the numbers xs, in 1/(100*Scale)
MeanFp(xs) == (100 * SumSeq(xs)) \div Len(xs)
StdFp(xs) ==
    LET d == Len(xs) * (Len(xs) - 1)
        v == VarianceNumerator(xs)
    IN  ISqrt(10000 * (v \div d) + (10000 * (v % d)) \div d)

\* n * (x - risk_mean)
Deviation(st, x) == st.n * x - st.sum

\* risk_std = target_data.std() is NaN
StdIsNaN(xs) == Len(xs) < 2

\* x > risk_mean + k * risk_std
AboveMeanPlusStd(st, x, k) ==
    /\ st.n >= 2
    /\ Deviation(st, x) > 0
    /\ (st.n - 1) * Deviation(st, x) * Deviation(st, x) > k * k * st.n * st.var_num

\* x <= risk_mean - risk_std
AtMostMeanMinusStd(st, x) ==
    /\ st.n >= 2
    /\ Deviation(st, x) <= 0
    /\ (st.n - 1) * Deviation(st, x) * Deviation(st, x) >= st.n * st.var_num

\* x <= low_threshold, low_threshold = max(0, risk_mean - risk_std)
LeLowThreshold(st, x) == x <= 0 \/ AtMostMeanMinusStd(st, x)

\* x > high_threshold, high_threshold = min(1, risk_mean + risk_std)
GtHighThreshold(st, x) == x > Scale \/ AboveMeanPlusStd(st, x, 1)

\* mutant of GtCriticalThreshold: ">=" in place of ">"
GtCriticalThreshold_Inclusive(st, x) ==
    \/ x >= Scale
    \/ /\ st.n >= 2
       /\ Deviation(st, x) >= 0
       /\ (st.n - 1) * Deviation(st, x) * Deviation(st, x) >= 4 * st.n * st.var_num

\* x > critical_threshold, critical_threshold = min(1, risk_mean + 2 * risk_std)
GtCriticalThreshold(st, x) == x > Scale \/ AboveMeanPlusStd(st, x, 2)

IsMediumRecord(st, x) == ~LeLowThreshold(st, x) /\ ~GtHighThreshold(st, x)

\* low_risk_count = len(target_data[target_data <= low_threshold])
LowRiskCount(xs) ==
    LET st == TargetStats(xs)
    IN  Cardinality({i \in 1..Len(xs) : LeLowThreshold(st, xs[i])})

\* medium_risk_count = len(target_data[(target_data > low_threshold) & ...])
MediumRiskCount(xs) ==
    LET st == TargetStats(xs)
    IN  Cardinality({i \in 1..Len(xs) : IsMediumRecord(st, xs[i])})

\* high_risk_count = len(target_data[target_data > high_threshold])
HighRiskCount(xs) ==
    LET st == TargetStats(xs)
    IN  Cardinality({i \in 1..Len(xs) : GtHighThreshold(st, xs[i])})

\* critical_risk_count = len(target_data[target_data > critical_threshold])
CriticalRiskCount(xs) ==
    LET st == TargetStats(xs)
    IN  Cardinality({i \in 1..Len(xs) : GtCriticalThreshold(st, xs[i])})

\* mutant of OverallRiskLevel: the HIGH test is made before the CRITICAL one
OverallRiskLevel_HighFirst(high_risk_count, critical_risk_count, total_records) ==
    IF 100 * high_risk_count > 25 * total_records THEN "HIGH"
    ELSE IF 100 * critical_risk_count > 15 * total_records THEN "CRITICAL"
    ELSE IF 100 * high_risk_count > 10 * total_records THEN "MEDIUM"
    ELSE "LOW"

\* the if/elif chain on high_risk_percentage and critical_risk_percentage
OverallRiskLevel(high_risk_count, critical_risk_count, total_records) ==
    IF 100 * critical_risk_count > 15 * total_records THEN "CRITICAL"
    ELSE IF 100 * high_risk_count > 25 * total_records THEN "HIGH"
    ELSE IF 100 * high_risk_count > 10 * total_records THEN "MEDIUM"
    ELSE "LOW"

\* risk_analysis["critical_thresholds"], rounded to three decimals: in
\* 1/(100*Scale).  With a single value risk_std is NaN, max(0, NaN) is 0 and
\* min(1, NaN) is 1.
CriticalThresholds(xs) ==
    IF StdIsNaN(xs)
    THEN [ low_threshold |-> Num(0),
           high_threshold |-> Num(100 * Scale),
           critical_threshold |-> Num(100 * Scale),
           mean_risk |-> Num(MeanFp(xs)),
           std_risk |-> NaN ]
    ELSE LET risk_mean == MeanFp(xs)
             risk_std == StdFp(xs)
         IN  [ low_threshold |-> Num(Max2(0, risk_mean - risk_std)),
               high_threshold |-> Num(Min2(100 * Scale, risk_mean + risk_std)),
               critical_threshold |-> Num(Min2(100 * Scale, risk_mean + 2 * risk_std)),
               mean_risk |-> Num(risk_mean),
               std_risk |-> Num(risk_std) ]

\* the dict {}
EmptyDict == [empty |-> TRUE]

\* mutant of DefaultRiskAnalysis: the level defaults to MEDIUM
DefaultRiskAnalysis_Medium ==
    [ overall_risk_level |-> "MEDIUM",
      high_risk_records |-> 0,
      medium_risk_records |-> 0,
      low_risk_records |-> 0,
      risk_factors |-> << >>,
      temporal_risks |-> << >>,
      risk_distribution |-> EmptyDict,
      critical_thresholds |-> EmptyDict ]

\* the risk_analysis dict as initialised
DefaultRiskAnalysis ==
    [ overall_risk_level |-> "LOW",
      high_risk_records |-> 0,
      medium_risk_records |-> 0,
      low_risk_records |-> 0,
      risk_factors |-> << >>,
      temporal_risks |-> << >>,
      risk_distribution |-> EmptyDict,
      critical_thresholds |-> EmptyDict ]

\* risk_analysis["risk_distribution"], in 1/10 percent
RiskDistribution(xs) ==
    [ low_percentage |-> Percentage(LowRiskCount(xs), Len(xs), 1),
      medium_percentage |-> Percentage(MediumRiskCount(xs), Len(xs), 1),
      high_percentage |-> Percentage(HighRiskCount(xs), Len(xs), 1),
      critical_percentage |-> Percentage(CriticalRiskCount(xs), Len(xs), 1) ]

(***************************************************************************)
(* MLService._assess_risk_patterns, its risk factors: the Pearson          *)
(* correlation of each feature column with the target over the rows where  *)
(* both are present.  With c = n*sum(xy) - sum(x)*sum(y) and p the product *)
(* of n*sum(x^2) - sum(x)^2 and n*sum(y^2) - sum(y)^2, the correlation is  *)
(* c / sqrt(p), NaN when p is 0, and abs(r) > t/10 reads                   *)
(* 100 * c^2 > t^2 * p.  The reported correlation is in 1/1000.            *)
(***************************************************************************)
\* target_data.index.intersection(feature_data.index)
CommonRows(target_cells, feature_cells) ==
    SelectSeq([i \in 1..Len(target_cells) |-> i] \o << >>,
              LAMBDA i : IsNum(target_cells[i]) /\ IsNum(feature_cells[i]))

\* sum(x * y): the products are summed by their low and their high digits
SumOfProducts(xs, ys) ==
    LimbAdd(Wide(SumSeq([i \in 1..Len(xs) |-> (xs[i] * ys[i]) % LimbBase] \o << >>)),
            ScaleW(Wide(SumSeq([i \in 1..Len(xs) |-> (xs[i] * ys[i]) \div LimbBase] \o << >>)),
                   LimbBase),
            LimbBase)

\* n * sum(x * y) - sum(x) * sum(y)
CrossDeviation(xs, ys) ==
    SubW(ScaleW(SumOfProducts(xs, ys), Len(xs)),
         MulW(Wide(SumSeq(xs)), Wide(SumSeq(ys))))

\* target_aligned.corr(feature_aligned), as c and p
Correlation(xs, ys) ==
    [ c |-> CrossDeviation(xs, ys),
      p |-> MulW(CrossDeviation(xs, xs), CrossDeviation(ys, ys)) ]

\* pd.isna(correlation)
CorrelationIsNaN(r) == IsZero(r.p)

\* abs(correlation) > tenths / 10
CorrelationExceeds(r, tenths) ==
    LessW(ScaleW(r.p, tenths * tenths), ScaleW(MulW(r.c, r.c), 100))

\* abs(round(correlation, 3)) in 1/1000: the greatest m in lo..hi with
\* (2m - 1)^2 * p <= 4000000 * c^2
RECURSIVE RoundedStrength(_, _, _, _)
RoundedStrength(lo, hi, c2, p) ==
    IF lo = hi THEN lo
    ELSE IF LessW(c2, ScaleW(ScaleW(p, 2 * ((lo + hi + 1) \div 2) - 1),
                             2 * ((lo + hi + 1) \div 2) - 1))
    THEN RoundedStrength(lo, (lo + hi + 1) \div 2 - 1, c2, p)
    ELSE RoundedStrength((lo + hi + 1) \div 2, hi, c2, p)

CorrelationStrength(r) ==
    RoundedStrength(0, 1000, ScaleW(ScaleW(MulW(r.c, r.c), 2000), 2000), r.p)

\* the if/elif chain on abs(correlation)
FactorImpact(r) ==
    IF CorrelationExceeds(r, 7) THEN "CRITICAL"
    ELSE IF CorrelationExceeds(r, 5) THEN "HIGH"
    ELSE IF CorrelationExceeds(r, 3) THEN "MEDIUM"
    ELSE "LOW"

\* the dict appended to risk_analysis["risk_factors"]
RiskFactor(feature, r, strength) ==
    [ factor |-> feature,
      correlation |-> IF IsNegativeW(r.c) THEN 0 - strength ELSE strength,
      impact |-> FactorImpact(r),
      direction |-> IF IsPositive(r.c) THEN "increases_risk" ELSE "decreases_risk",
      confidence |-> Min2(950, strength) ]

\* what the loop body appends for one feature: << >> or one risk factor
FactorOn(feature, rows, target_cells, feature_cells) ==
    IF Len(rows) > 5
    THEN LET r == Correlation([p \in 1..Len(rows) |-> feature_cells[rows[p]].v] \o << >>,
                              [p \in 1..Len(rows) |-> target_cells[rows[p]].v] \o << >>)
         IN  IF ~CorrelationIsNaN(r) /\ CorrelationExceeds(r, 1)
             THEN <<RiskFactor(feature, r, CorrelationStrength(r))>>
             ELSE << >>
    ELSE << >>

FactorOf(df, target_col, feature) ==
    IF HasColumn(df, feature)
    THEN FactorOn(feature, CommonRows(Column(df, target_col), Column(df, feature)),
                  Column(df, target_col), Column(df, feature))
    ELSE << >>

\* the factors in the order of schema['potential_features']
RECURSIVE FactorsFound(_, _, _, _)
FactorsFound(df, target_col, features, k) ==
    IF k > Len(features) THEN << >>
    ELSE FactorOf(df, target_col, features[k])
             \o FactorsFound(df, target_col, features, k + 1)

Strength(f) == IF f.correlation < 0 THEN 0 - f.correlation ELSE f.correlation

\* risk_factors.sort(key=lambda x: abs(x["correlation"]), reverse=True) on
\* the first k factors: a stable sort, strongest first
RECURSIVE SortFactors(_, _)
SortFactors(factors, k) ==
    IF k = 0 THEN << >>
    ELSE LET sorted == SortFactors(factors, k - 1)
             keep == Cardinality({j \in 1..Len(sorted) :
                                     Strength(sorted[j]) >= Strength(factors[k])})
         IN  SubSeq(sorted, 1, keep) \o <<factors[k]>>
                 \o SubSeq(sorted, keep + 1, Len(sorted))

\* mutant of RiskFactorsFrom: the list is left in the order of the features
RiskFactorsFrom_Unsorted(factors) == factors

\* the list after the sort
RiskFactorsFrom(factors) == SortFactors(factors, Len(factors))

\* risk_analysis["risk_factors"]
RiskFactors(df, sc) ==
    RiskFactorsFrom(FactorsFound(df, sc.potential_target, sc.potential_features, 1))

(***************************************************************************)
(* MLService._assess_risk_patterns, its temporal risks: the rows with a    *)
(* time and a target value are grouped by date when the times span more    *)
(* than 7 days and by hour otherwise; the groups come in time order.  A    *)
(* group is named by its day or hour after 2024-01-01 (0 for the times     *)
(* given as numbers, all within the first hour of the epoch).              *)
(* average_risk is in 1/(100*Scale).                                       *)
(***************************************************************************)
\* df_time_risk[time_col].dt.date or .dt.floor('H')
TimeGroup(c, by_day) ==
    IF IsDate(c) THEN (IF by_day THEN c.v \div 24 ELSE c.v) ELSE 0

\* the target values of the rows of group g
GroupValues(times, targets, rows, by_day, g) ==
    LET members == SelectSeq(rows, LAMBDA i : TimeGroup(times[i], by_day) = g)
    IN  [p \in 1..Len(members) |-> targets[members[p]].v] \o << >>

\* sum / count > risk_mean + k * risk_std
MeanAboveMeanPlusStd(st, sum, count, k) ==
    /\ st.n >= 2
    /\ st.n * sum - count * st.sum > 0
    /\ LessW(ScaleW(ScaleW(ScaleW(Wide(st.var_num), k * k * st.n), count), count),
             ScaleW(MulW(Wide(st.n * sum - count * st.sum),
                         Wide(st.n * sum - count * st.sum)),
                    st.n - 1))

\* the mean of the values xs exceeds min(1, risk_mean + k * risk_std)
MeanExceeds(st, xs, k) ==
    \/ SumSeq(xs) > Len(xs) * Scale
    \/ MeanAboveMeanPlusStd(st, SumSeq(xs), Len(xs), k)

\* the groups of time_risk_avg[time_risk_avg > high_threshold]
HighRiskGroups(st, times, targets, rows, by_day) ==
    { g \in {TimeGroup(times[rows[p]], by_day) : p \in 1..Len(rows)} :
        MeanExceeds(st, GroupValues(times, targets, rows, by_day, g), 1) }

\* high_risk_times.head(k): the first k in index order, which is time order
RECURSIVE HeadOf(_, _)
HeadOf(groups, k) ==
    IF k = 0 \/ groups = {} THEN << >>
    ELSE LET first == CHOOSE g \in groups : \A h \in groups : g <= h
         IN  <<first>> \o HeadOf(groups \ {first}, k - 1)

\* one entry of risk_analysis["temporal_risks"]
TemporalRisk(st, g, by_day, xs) ==
    [ time_period |-> [unit |-> IF by_day THEN "day" ELSE "hour", at |-> g],
      average_risk |-> RoundDiv(100 * SumSeq(xs), Len(xs)),
      risk_level |-> IF MeanExceeds(st, xs, 2) THEN "HIGH" ELSE "MEDIUM" ]

TemporalRisksOf(st, times, targets, rows, by_day, reported) ==
    [p \in 1..Len(reported) |->
        TemporalRisk(st, reported[p], by_day,
                     GroupValues(times, targets, rows, by_day, reported[p]))] \o << >>

TemporalRisksBy(st, times, targets, rows, by_day) ==
    TemporalRisksOf(st, times, targets, rows, by_day,
                    HeadOf(HighRiskGroups(st, times, targets, rows, by_day), 5))

TemporalRisksOn(st, times, targets, present) ==
    IF present = << >> THEN << >>
    ELSE IF Len(PairedRows(times, targets)) > 10
    THEN TemporalRisksBy(st, times, targets, PairedRows(times, targets) \o << >>,
                         SpanDays(Extremes(present)[1], Extremes(present)[2]) > 7)
    ELSE << >>

\* risk_analysis["temporal_risks"]
TemporalRisks(df, sc, target_data) ==
    IF sc.datetime_columns = << >> THEN << >>
    ELSE IF ~HasColumn(df, sc.datetime_columns[1]) THEN << >>
    ELSE TemporalRisksOn(TargetStats(target_data),
                         Column(df, sc.datetime_columns[1]),
                         Column(df, sc.potential_target),
                         SelectSeq(Column(df, sc.datetime_columns[1]),
                                   LAMBDA c : IsNum(c) \/ IsDate(c)))

\* A component either returns a value or raises: exc names the exception.
Returns(v) == [exc |-> "", val |-> v]
Raises(e) == [exc |-> e, val |-> << >>]

\* the target column is a datetime column with a timestamp present:
\* max(0, risk_mean - risk_std) compares an int with a Timestamp
TargetIsTimestamp(df, target_col) ==
    /\ df.dtype[ColIndex(df, target_col)] = "datetime64"
    /\ TimesPresent(Column(df, target_col)) # << >>

\* _assess_risk_patterns raises
RiskAssessmentRaises(df, sc) ==
    /\ sc.potential_target # NoName
    /\ HasColumn(df, sc.potential_target)
    /\ TargetIsTimestamp(df, sc.potential_target)

_assess_risk_patterns(df, sc) ==
    LET target_col == sc.potential_target
    IN  IF target_col = NoName \/ ~HasColumn(df, target_col)
        THEN Returns(DefaultRiskAnalysis)
        ELSE LET target_data == DropNa(Column(df, target_col))
                 high_risk_count == HighRiskCount(target_data)
                 critical_risk_count == CriticalRiskCount(target_data)
             IN  IF target_data = << >> THEN Returns(DefaultRiskAnalysis)
                 ELSE IF RiskAssessmentRaises(df, sc) THEN Raises("TypeError")
                 ELSE Returns(
                   [ overall_risk_level |->
                         OverallRiskLevel(high_risk_count, critical_risk_count,
                                          Len(target_data)),
                     high_risk_records |-> high_risk_count,
                     medium_risk_records |-> MediumRiskCount(target_data),
                     low_risk_records |-> LowRiskCount(target_data),
                     risk_factors |-> RiskFactors(df, sc),
                     temporal_risks |-> TemporalRisks(df, sc, target_data),
                     risk_distribution |-> RiskDistribution(target_data),
                     critical_thresholds |-> CriticalThresholds(target_data) ])

(***************************************************************************)
(* The seed of an analysis: hash(str(df.values.tobytes()) + dataset_id).   *)
(* df.values of columns that share one dtype is a numeric array whose      *)
(* bytes are the cell values; with mixed dtypes (a datetime column next to *)
(* a numeric one) it is an object array, whose bytes are the addresses of  *)
(* the boxed cells in this run.  The str hash is salted by the process.    *)
(* Hash values are kept below 2**31, so "% (2**31)" and abs() change       *)
(* nothing.                                                                *)
(***************************************************************************)
IsObjectArray(df) ==
    /\ df.n > 0
    /\ \E i, j \in 1..Len(df.dtype) : df.dtype[i] # df.dtype[j]

CellCode(c) ==
    IF IsNum(c) THEN (c.v + 40000) % 65521
    ELSE IF IsDate(c) THEN (c.v * 37 + 50000) % 65521
    ELSE 65520

\* the k-th cell of the array, row by row
CellAt(df, k) ==
    df.cells[((k - 1) % Len(df.columns)) + 1][((k - 1) \div Len(df.columns)) + 1]

\* the bytes of the cells lo..hi of a numeric array, each at its position
RECURSIVE MixRange(_, _, _)
MixRange(df, lo, hi) ==
    IF lo > hi THEN 0
    ELSE IF lo = hi THEN (lo * CellCode(CellAt(df, lo))) % 65521
    ELSE LET mid == (lo + hi) \div 2
         IN  (MixRange(df, lo, mid) + MixRange(df, mid + 1, hi)) % 65521

\* str(df.values.tobytes())
TobytesDigest(df, addr) ==
    IF IsObjectArray(df) THEN (addr * 257 + 3) % 65521
    ELSE LET size == df.n * Len(df.columns)
         IN  (MixRange(df, 1, size) + 31 * size + 1) % 65521

\* hash(text + dataset_id) in a process with the given hash seed
PyHashText(digest, dataset_id, hashseed) ==
    MixChars((digest * 131 + hashseed * 7919 + 17) % 65521, dataset_id)

\* data_hash = hash(str(df.values.tobytes()) + dataset_id) % (2**31)
DataHash(df, dataset_id, hashseed, addr) ==
    PyHashText(TobytesDigest(df, addr), dataset_id, hashseed)

\* np.random.seed(abs(data_hash) % 10000)
RandomSeed(data_hash) == data_hash % 10000

\* the k-th np.random.normal draw after seeding, as a standard normal
\* deviate in tenths (a function of the seed and of k alone)
StdNormal(seed, k) == ((seed * 31 + k * 17 + (seed % 7) * k) % 61) - 30

(***************************************************************************)
(* MLService._generate_predictions.  predicted_value and its bounds are in *)
(* 1/(100*Scale), confidence in 1/10000.                                   *)
(***************************************************************************)
\* the columns of a name list that are columns of the table
RECURSIVE InTable(_, _)
InTable(df, names) ==
    IF names = << >> THEN << >>
    ELSE IF HasColumn(df, Head(names)) THEN <<Head(names)>> \o InTable(df, Tail(names))
    ELSE InTable(df, Tail(names))

IsMember(name, names) == \E j \in 1..Len(names) : names[j] = name

\* mutant of NumPredictions: no upper limit
NumPredictions_Uncapped(n) == Max2(6, n \div 50)

\* num_predictions = min(24, max(6, len(df) // 50))
NumPredictions(n) == Min2(24, Max2(6, n \div 50))

\* time_horizons[min(i, len(time_horizons) - 1)] for the 0-based step i
TimeHorizon(i) ==
    LET idx == Min2(i, 5)
    IN  CASE idx = 0 -> [amount |-> (i + 1) * 15, unit |-> "minutes"]
          [] idx = 1 -> [amount |-> (i + 1) * 30, unit |-> "minutes"]
          [] idx = 2 -> [amount |-> (i + 1), unit |-> "hours"]
          [] idx = 3 -> [amount |-> (i + 1) * 2, unit |-> "hours"]
          [] idx = 4 -> [amount |-> (i + 1) * 6, unit |-> "hours"]
          [] OTHER -> [amount |-> (i + 1) * 12, unit |-> "hours"]

\* the value sampled around the target mean, clamped to [min, max]; with a
\* NaN std the sample is NaN and the clamp max(min, min(max, nan)) yields max
TargetPrediction(xs, i, z) ==
    IF xs = << >> THEN NaN
    ELSE IF StdIsNaN(xs) THEN Num(100 * SeqMax(xs))
    ELSE LET sample == (MeanFp(xs) * (100 + 2 * i)) \div 100 + (z * StdFp(xs)) \div 20
         IN  Num(Max2(100 * SeqMin(xs), Min2(100 * SeqMax(xs), sample)))

\* 0.3 + i * 0.05 + normal(0, 0.1), clamped to [0, 1]
FallbackPrediction(i, z) ==
    Num(Max2(0, Min2(100 * Scale, 30 * Scale + i * 5 * Scale + z * Scale)))

\* mutant of PredictionConfidence: no lower limit
PredictionConfidence_NoFloor(n, z) == Min2(9500, 7000 + 2 * n + 50 * z)

\* max(0.6, min(0.95, 0.7 + len(df) / 1000 * 0.2 + normal(0, 0.05)))
PredictionConfidence(n, z) == Max2(6000, Min2(9500, 7000 + 2 * n + 50 * z))

Scaled(c, percent) == IF IsNum(c) THEN Num((c.v * percent) \div 100) ELSE c

Prediction(df, sc, data_hash, i) ==
    LET numeric_cols == InTable(df, sc.numeric_columns)
        target_col == sc.potential_target
        seed == RandomSeed(data_hash)
        hasStats == /\ target_col # NoName
                    /\ IsMember(target_col, numeric_cols)
                    /\ df.n > 0
        predicted_value ==
            IF hasStats
            THEN TargetPrediction(DropNa(Column(df, target_col)), i,
                                  StdNormal(seed, 2 * i))
            ELSE FallbackPrediction(i, StdNormal(seed, 2 * i))
    IN  [ prediction_id |-> <<"pred", data_hash, i + 1>>,
          predicted_value |-> predicted_value,
          confidence |-> PredictionConfidence(df.n, StdNormal(seed, 2 * i + 1)),
          time_horizon |-> TimeHorizon(i),
          factors_considered |-> SubSeq(numeric_cols, 1, Min2(5, Len(numeric_cols))),
          uncertainty_range |-> [ lower |-> Scaled(predicted_value, 85),
                                  upper |-> Scaled(predicted_value, 115) ] ]

_generate_predictions(df, sc, data_hash) ==
    [k \in 1..NumPredictions(df.n) |-> Prediction(df, sc, data_hash, k - 1)]

(***************************************************************************)
(* MLService._generate_statistical_insights: per numeric column the Python *)
(* type of distributions[col]["is_normal"], has_outliers and the outlier   *)
(* statistics.                                                             *)
(* "abs(col_data.skew()) < 1.0" is a numpy.bool_ when skew() is a numpy    *)
(* float; skew() is the float nan for fewer than three values, and for a   *)
(* constant column it is a native 0 or a numpy 0.0 with the pandas build.  *)
(***************************************************************************)
AllEqual(xs) == \A i \in 1..Len(xs) : xs[i] = xs[1]

IsNormalType(xs, zero_skew_native) ==
    IF Len(xs) > 1
    THEN IF Len(xs) < 3 THEN "bool"
         ELSE IF AllEqual(xs) /\ zero_skew_native THEN "bool"
         ELSE "numpy.bool_"
    ELSE "bool"

\* the row labels (from 0) of the cells dropna() keeps
PresentRows(cells) ==
    LET rows == SelectSeq([i \in 1..Len(cells) |-> i], LAMBDA i : IsNum(cells[i]))
    IN  [p \in 1..Len(rows) |-> rows[p] - 1]

\* _detect_outliers_iqr(data): data is the column after dropna()
_detect_outliers_iqr(cells) ==
    LET data == DropNa(cells)
    IN  IF Len(data) < 4 THEN FALSE
        ELSE IqrOutliers(data) # {}

\* mutant of _get_outlier_indices: the early return yields the whole index
_get_outlier_indices_WholeIndex(cells) ==
    LET data == DropNa(cells)
        index == PresentRows(cells)
    IN  IF Len(data) < 4 THEN index
        ELSE LET outlier_mask == IqrOutliers(data)
                 kept == SelectSeq([p \in 1..Len(data) |-> p],
                                   LAMBDA p : p \in outlier_mask)
             IN  [q \in 1..Len(kept) |-> index[kept[q]]]

\* _get_outlier_indices(data): the row labels of the outliers
_get_outlier_indices(cells) ==
    LET data == DropNa(cells)
        index == PresentRows(cells)
    IN  IF Len(data) < 4 THEN << >>
        ELSE LET outlier_mask == IqrOutliers(data)
                 kept == SelectSeq([p \in 1..Len(data) |-> p],
                                   LAMBDA p : p \in outlier_mask)
             IN  [q \in 1..Len(kept) |-> index[kept[q]]]

\* stats["outliers"][col]; percentage in 1/100 percent
OutlierStats(outliers, col_data) ==
    [ count |-> Len(outliers),
      percentage |-> Percentage(Len(outliers), Len(col_data), 2),
      indices |-> SubSeq(outliers, 1, Min2(10, Len(outliers))) ]

RECURSIVE Distributions(_, _, _)
Distributions(df, numeric_cols, zero_skew_native) ==
    IF numeric_cols = << >> THEN << >>
    ELSE LET col == Head(numeric_cols)
             col_data == DropNa(Column(df, col))
             rest == Distributions(df, Tail(numeric_cols), zero_skew_native)
         IN  IF Len(col_data) > 0
             THEN << [ column |-> col,
                       is_normal |-> [pytype |-> IsNormalType(col_data, zero_skew_native)],
                       has_outliers |-> _detect_outliers_iqr(Column(df, col)),
                       outliers |-> OutlierStats(
                                        _get_outlier_indices(Column(df, col)),
                                        col_data),
                       count |-> Len(col_data) ] >> \o rest
             ELSE rest

_generate_statistical_insights(df, sc, zero_skew_native) ==
    Distributions(df,
                  IF df.n > 0 THEN InTable(df, sc.numeric_columns) ELSE << >>,
                  zero_skew_native)

(***************************************************************************)
(* MLService._calculate_data_quality.  The four parts and their sum are in *)
(* 1/1000 of a point, the returned score (round(..., 1)) in 1/10.          *)
(***************************************************************************)
N_latitude == <<"l","a","t","i","t","u","d","e">>
N_longitude == <<"l","o","n","g","i","t","u","d","e">>

\* key_columns
KeyColumns == <<N_timestamp, N_latitude, N_longitude, N_risk_score>>

MissingIn(cells) == Cardinality({i \in 1..Len(cells) : cells[i] = NaN})

\* df.isnull().sum().sum()
MissingCells(df) ==
    SumSeq([j \in 1..Len(df.columns) |-> MissingIn(df.cells[j])])

RowOf(df, i) == [j \in 1..Len(df.columns) |-> df.cells[j][i]]

\* df.duplicated().sum(): the rows equal to an earlier row
DuplicateCount(df) ==
    Cardinality({i \in 2..df.n : \E k \in 1..(i - 1) : RowOf(df, k) = RowOf(df, i)})

\* a / b * 100 in 1/1000
Ratio3(a, b) == (a * 100000) \div b

\* col_validity: the share of col_data within [q1 - 3 * iqr, q3 + 3 * iqr]
ColValidity(col_data) ==
    LET q1 == Quantile4(col_data, 1)
        q3 == Quantile4(col_data, 3)
        iqr == q3 - q1
        valid_values == {i \in 1..Len(col_data) :
                            /\ 4 * col_data[i] >= q1 - 3 * iqr
                            /\ 4 * col_data[i] <= q3 + 3 * iqr}
    IN  Ratio3(Cardinality(valid_values), Len(col_data))

\* the columns of df.select_dtypes(include=...)
ColumnsOfDtype(df, dtypes) == {j \in 1..Len(df.columns) : df.dtype[j] \in dtypes}

ValidityScore(df) ==
    LET numeric_cols == ColumnsOfDtype(df, {"int64", "float64"})
        col_score(j) == IF DropNa(df.cells[j]) # << >>
                        THEN ColValidity(DropNa(df.cells[j])) ELSE 0
    IN  IF numeric_cols # {}
        THEN ((SumSeq([j \in 1..Len(df.columns) |->
                          IF j \in numeric_cols THEN col_score(j) ELSE 0])
               \div Cardinality(numeric_cols)) * 20) \div 100
        ELSE 20000

\* the share of the time steps within [median / 2, 2 * median]
IntervalConsistency(time_data) ==
    LET time_diffs == [i \in 1..(Len(time_data) - 1) |-> time_data[i + 1] - time_data[i]]
        median_diff == Quantile4(time_diffs, 2)
        consistent_intervals == {i \in 1..Len(time_diffs) :
                                    /\ 8 * time_diffs[i] >= median_diff
                                    /\ 2 * time_diffs[i] <= median_diff}
    IN  Ratio3(Cardinality(consistent_intervals), Len(time_diffs))

ConsistencyScore(df) ==
    LET datetime_cols == ColumnsOfDtype(df, {"datetime64"})
        col_score(j) == IF Len(TimesPresent(df.cells[j])) > 1
                        THEN IntervalConsistency(TimesPresent(df.cells[j])) ELSE 0
    IN  IF datetime_cols # {}
        THEN ((SumSeq([j \in 1..Len(df.columns) |->
                          IF j \in datetime_cols THEN col_score(j) ELSE 0])
               \div Cardinality(datetime_cols)) * 15) \div 100
        ELSE 12000

\* "total_score *= 0.8" for each key column more than half missing
RECURSIVE KeyColumnPenalty(_, _, _)
KeyColumnPenalty(df, total_score, k) ==
    IF k > Len(KeyColumns) THEN total_score
    ELSE LET col == KeyColumns[k]
             penalised == /\ HasColumn(df, col)
                          /\ 2 * MissingIn(Column(df, col)) > df.n
         IN  KeyColumnPenalty(df,
                              IF penalised THEN (total_score * 8) \div 10 ELSE total_score,
                              k + 1)

_calculate_data_quality(df) ==
    IF df.n = 0 \/ df.columns = << >> THEN 0
    ELSE LET total_cells == df.n * Len(df.columns)
             completeness_score ==
                 (Ratio3(total_cells - MissingCells(df), total_cells) * 40) \div 100
             uniqueness_score ==
                 (Ratio3(df.n - DuplicateCount(df), df.n) * 25) \div 100
             total_score == completeness_score + uniqueness_score
                            + ValidityScore(df) + ConsistencyScore(df)
             sized == IF df.n < 10 THEN (total_score * 7) \div 10
                      ELSE IF df.n < 50 THEN (total_score * 85) \div 100
                      ELSE total_score
             penalised == KeyColumnPenalty(df, sized, 1)
         IN  (Max2(0, Min2(100000, penalised)) + 50) \div 100

(***************************************************************************)
(* MLService._detect_anomalies_comprehensive: with numeric columns the     *)
(* rows, missing cells filled with the column mean, are given to           *)
(* IsolationForest.fit_predict, which raises ValueError on zero rows and   *)
(* on a NaN left in the data (the mean of an all-missing column is NaN).   *)
(* The forest is seeded with random_state=42: the labels it gives are a    *)
(* function of the data.  forest names that function by the number of rows *)
(* it labels -1: none, one in ten (the contamination), or every row.       *)
(* anomaly_rate is in 1/100 percent.                                       *)
(***************************************************************************)
ForestOutcomes == {"none", "tenth", "all"}

\* len(anomaly_labels[anomaly_labels == -1])
AnomalyCount(n, forest) ==
    CASE forest = "none" -> 0
      [] forest = "tenth" -> (n + 9) \div 10
      [] OTHER -> n

\* fit_predict raises
FitPredictRaises(df, numeric_cols) ==
    /\ numeric_cols # << >>
    /\ \/ df.n = 0
       \/ \E j \in 1..Len(numeric_cols) : DropNa(Column(df, numeric_cols[j])) = << >>

\* mutant of AnomalyRate: the count is not divided by len(df)
AnomalyRate_Undivided(anomaly_count, n) == anomaly_count * 10000

\* round(anomaly_count / len(df) * 100, 2)
AnomalyRate(anomaly_count, n) == Percentage(anomaly_count, n, 2)

_detect_anomalies_comprehensive(df, sc, forest) ==
    LET numeric_cols == InTable(df, sc.numeric_columns)
        anomaly_count == AnomalyCount(df.n, forest)
    IN  IF Len(numeric_cols) > 0
        THEN IF FitPredictRaises(df, numeric_cols)
             THEN Raises("ValueError")
             ELSE Returns([ total_anomalies |-> anomaly_count,
                            anomaly_rate |-> AnomalyRate(anomaly_count, df.n) ])
        ELSE Returns([total_anomalies |-> 0, anomaly_rate |-> 0])

(***************************************************************************)
(* MLService._analyze_trends.  For each numeric column the least-squares   *)
(* slope over the rows where the time and the value are present: x is the  *)
(* time as int64 nanoseconds, so sum_x, sum_x2, n * sum_x2 and sum_x ** 2  *)
(* are int64 and wrap; with an int64 value column sum_xy and the numerator *)
(* are int64 too, with a float64 one they are floats.  Float arithmetic is *)
(* modelled by exact arithmetic.  The sums do not depend on the order of   *)
(* the rows, so the sorting by time is not modelled.  A date text Date(h)  *)
(* reads as h hours after 2024-01-01T00:00:00; a number in a datetime      *)
(* column is a count of nanoseconds since the epoch.  Confidence is in     *)
(* 1/100.                                                                  *)
(***************************************************************************)
TimeOriginSeconds == 1704067200

TimeOriginNs == Mul64(Int64(TimeOriginSeconds), Int64(1000000000))

HourNs == Mul64(Int64(3600000), Int64(1000000))

\* pd.to_numeric of a cell of a datetime column
EpochNs(c) ==
    IF IsDate(c) THEN Add64(TimeOriginNs, Scale64(HourNs, c.v))
    ELSE Int64(c.v \div Scale)

\* n * sum_x2 - sum_x ** 2
SlopeDenominator(n, xs) ==
    Sub64(Scale64(Sum64([i \in 1..n |-> Mul64(xs[i], xs[i])] \o << >>), n),
          Mul64(Sum64(xs), Sum64(xs)))

\* n * sum_xy - sum_x * sum_y for int64 values ys
SlopeNumerator64(n, xs, ys) ==
    Sub64(Scale64(Sum64([i \in 1..n |-> Scale64(xs[i], ys[i])] \o << >>), n),
          Mul64(Sum64(xs), Int64(SumSeq(ys))))

\* n * sum_xy - sum_x * sum_y for float64 values ys (in 1/Scale): sum_x has
\* wrapped, the products and sums of floats have not
SlopeNumeratorFloat(n, xs, ys) ==
    SubW(ScaleW(SumW([i \in 1..n |-> ScaleW(Widen(xs[i]), ys[i])] \o << >>), n),
         MulW(Widen(Sum64(xs)), Wide(SumSeq(ys))))

\* abs(normalized_slope) > tenths / 10, where normalized_slope is
\* slope * time_range / value_range and slope is numerator / denominator
SlopeExceeds(numerator, denominator, time_range, value_range, tenths) ==
    LessW(MulW(Wide(tenths), MulW(Magnitude(denominator), value_range)),
          MulW(Wide(10), MulW(Magnitude(numerator), time_range)))

\* int(abs(normalized_slope) * 100) below 95, for
\* abs(normalized_slope) * 100 = scaled / unit
SlopePercent(scaled, unit) ==
    CHOOSE q \in 0..94 : /\ ~LessW(scaled, ScaleW(unit, q))
                         /\ LessW(scaled, ScaleW(unit, q + 1))

SlopeConfidenceOf(scaled, unit) ==
    IF ~LessW(scaled, ScaleW(unit, 95)) THEN 95 ELSE SlopePercent(scaled, unit)

\* min(0.95, abs(normalized_slope))
SlopeConfidence(numerator, denominator, time_range, value_range) ==
    SlopeConfidenceOf(ScaleW(MulW(Magnitude(numerator), time_range), 100),
                      MulW(Magnitude(denominator), value_range))

\* no trends["trend_strength"] entry is written for the column
NoTrend == [direction |-> "none", confidence |-> 0, fitted |-> FALSE]

\* the entry is written and the column is in neither list of metrics
Unclassified == [direction |-> "none", confidence |-> 0, fitted |-> TRUE]

\* mutant of ClassifySlope: the sign of the slope is not looked at
ClassifySlope_Unsigned(numerator, denominator, time_range, value_range) ==
    IF IsZero(denominator) THEN NoTrend
    ELSE IF ~IsPositive(value_range) \/ ~IsPositive(time_range) THEN NoTrend
    ELSE IF ~SlopeExceeds(numerator, denominator, time_range, value_range, 1)
    THEN Unclassified
    ELSE [ direction |-> "increasing",
           confidence |-> SlopeConfidence(numerator, denominator,
                                          time_range, value_range),
           fitted |-> TRUE ]

\* "if n * sum_x2 - sum_x ** 2 != 0", "if value_range > 0 and time_range > 0"
\* and the classification of normalized_slope against 0.1 and -0.1
ClassifySlope(numerator, denominator, time_range, value_range) ==
    IF IsZero(denominator) THEN NoTrend
    ELSE IF ~IsPositive(value_range) \/ ~IsPositive(time_range) THEN NoTrend
    ELSE IF ~SlopeExceeds(numerator, denominator, time_range, value_range, 1)
    THEN Unclassified
    ELSE [ direction |->
               IF IsNegativeW(numerator) = IsNegativeW(denominator)
               THEN "increasing" ELSE "decreasing",
           confidence |-> SlopeConfidence(numerator, denominator,
                                          time_range, value_range),
           fitted |-> TRUE ]

\* time_numeric.max() - time_numeric.min()
TimeRange(ts) == Widen(Sub64(EpochNs(ts[2]), EpochNs(ts[1])))

\* the regression of the values ys (in 1/Scale) on the times ts
Regression(dtype, n, ts, xs, ys) ==
    IF dtype = "int64"
    THEN ClassifySlope(
             Widen(SlopeNumerator64(n, xs, [i \in 1..n |-> ys[i] \div Scale] \o << >>)),
             Widen(SlopeDenominator(n, xs)),
             TimeRange(Extremes(ts)),
             Wide((SeqMax(ys) - SeqMin(ys)) \div Scale))
    ELSE ClassifySlope(
             SlopeNumeratorFloat(n, xs, ys),
             Widen(SlopeDenominator(n, xs)),
             TimeRange(Extremes(ts)),
             Wide(SeqMax(ys) - SeqMin(ys)))

\* sum(y^2): the squares are summed by their low and their high digits
SumOfSquares(ys) ==
    LimbAdd(Wide(SumSeq([i \in 1..Len(ys) |-> (ys[i] * ys[i]) % LimbBase] \o << >>)),
            ScaleW(Wide(SumSeq([i \in 1..Len(ys) |-> (ys[i] * ys[i]) \div LimbBase] \o << >>)),
                   LimbBase),
            LimbBase)

\* volatility > 0.2, volatility = values.std() / values.mean() if the mean
\* is not 0, else 0: 25 * n * (n * sum(y^2) - sum(y)^2) > (n - 1) * sum(y)^2
HasCycles(ys) ==
    /\ SumSeq(ys) > 0
    /\ LessW(MulW(Wide(Len(ys) - 1), MulW(Wide(SumSeq(ys)), Wide(SumSeq(ys)))),
             ScaleW(SubW(ScaleW(SumOfSquares(ys), Len(ys)),
                         MulW(Wide(SumSeq(ys)), Wide(SumSeq(ys)))),
                    25 * Len(ys)))

\* what the loop body leaves for a column: its trend, whether
\* trends["time_series_analysis"][col] was written (analysed), and its
\* has_cycles and data_points
WithCycles(trend, analysed, has_cycles, data_points) ==
    [ direction |-> trend.direction,
      confidence |-> trend.confidence,
      fitted |-> trend.fitted,
      analysed |-> analysed,
      has_cycles |-> has_cycles,
      data_points |-> data_points ]

\* mutant of ColumnTrendOn: ten points are enough for the fit and fifty for
\* the time series analysis
ColumnTrendOn_AtLeast(dtype, times, cells, rows) ==
    IF Len(rows) >= 10
    THEN WithCycles(Regression(dtype, Len(rows),
                               [p \in 1..Len(rows) |-> times[rows[p]]] \o << >>,
                               [p \in 1..Len(rows) |-> EpochNs(times[rows[p]])] \o << >>,
                               [p \in 1..Len(rows) |-> cells[rows[p]].v] \o << >>),
                    Len(rows) >= 50,
                    /\ Len(rows) >= 50
                    /\ HasCycles([p \in 1..Len(rows) |-> cells[rows[p]].v] \o << >>),
                    Len(rows))
    ELSE WithCycles(NoTrend, FALSE, FALSE, Len(rows))

\* what the loop body finds for one numeric column: rows are the rows of
\* col_data
ColumnTrendOn(dtype, times, cells, rows) ==
    IF Len(rows) > 10
    THEN WithCycles(Regression(dtype, Len(rows),
                               [p \in 1..Len(rows) |-> times[rows[p]]] \o << >>,
                               [p \in 1..Len(rows) |-> EpochNs(times[rows[p]])] \o << >>,
                               [p \in 1..Len(rows) |-> cells[rows[p]].v] \o << >>),
                    Len(rows) > 50,
                    /\ Len(rows) > 50
                    /\ HasCycles([p \in 1..Len(rows) |-> cells[rows[p]].v] \o << >>),
                    Len(rows))
    ELSE WithCycles(NoTrend, FALSE, FALSE, Len(rows))

ColumnTrend(df, datetime_col, col) ==
    ColumnTrendOn(df.dtype[ColIndex(df, col)], Column(df, datetime_col),
                  Column(df, col),
                  PairedRows(Column(df, datetime_col), Column(df, col)))

\* trends["increasing_metrics"] or trends["decreasing_metrics"]
MetricsOf(numeric_cols, found, direction) ==
    LET hits == SelectSeq([k \in 1..Len(numeric_cols) |-> k],
                          LAMBDA k : found[k].direction = direction)
    IN  [p \in 1..Len(hits) |->
            [ metric |-> numeric_cols[hits[p]],
              confidence |-> found[hits[p]].confidence ]]

\* the keys of trends["trend_strength"]
TrendStrength(numeric_cols, found) ==
    LET hits == SelectSeq([k \in 1..Len(numeric_cols) |-> k],
                          LAMBDA k : found[k].fitted)
    IN  [p \in 1..Len(hits) |-> numeric_cols[hits[p]]]

\* trends["time_series_analysis"]
TimeSeriesAnalysis(numeric_cols, found) ==
    LET hits == SelectSeq([k \in 1..Len(numeric_cols) |-> k],
                          LAMBDA k : found[k].analysed)
    IN  [p \in 1..Len(hits) |->
            [ metric |-> numeric_cols[hits[p]],
              has_cycles |-> found[hits[p]].has_cycles,
              data_points |-> found[hits[p]].data_points ]]

\* mutant of TrendDirection: equal counts are reported as STABLE
TrendDirection_NoMixed(increasing_count, decreasing_count) ==
    IF increasing_count > decreasing_count /\ increasing_count > 0 THEN "INCREASING"
    ELSE IF decreasing_count > increasing_count /\ decreasing_count > 0 THEN "DECREASING"
    ELSE "STABLE"

\* the if/elif chain on increasing_count and decreasing_count
TrendDirection(increasing_count, decreasing_count) ==
    IF increasing_count > decreasing_count /\ increasing_count > 0 THEN "INCREASING"
    ELSE IF decreasing_count > increasing_count /\ decreasing_count > 0 THEN "DECREASING"
    ELSE IF increasing_count > 0 \/ decreasing_count > 0 THEN "MIXED"
    ELSE "STABLE"

\* trends["forecast_indicators"]
ForecastIndicators(trend_direction, sorted_len, metrics) ==
    [ predictability |->
          IF trend_direction \in {"INCREASING", "DECREASING"} THEN "HIGH" ELSE "MEDIUM",
      data_sufficiency |-> IF sorted_len > 100 THEN "SUFFICIENT" ELSE "LIMITED",
      trend_consistency |->
          Cardinality({k \in 1..Len(metrics) : metrics[k].confidence > 70}) ]

\* the dictionary _analyze_trends starts from, returned as it is when no
\* datetime column of the schema is in the table
DefaultTrends ==
    [ trend_direction |-> "STABLE",
      seasonal_patterns |-> FALSE,
      increasing_metrics |-> << >>,
      decreasing_metrics |-> << >>,
      trend_strength |-> << >>,
      time_series_analysis |-> << >>,
      forecast_indicators |-> EmptyDict ]

TrendsFrom(times_present, found, increasing_metrics, decreasing_metrics, trend_strength, time_series_analysis) ==
    [ trend_direction |->
          TrendDirection(Len(increasing_metrics), Len(decreasing_metrics)),
      seasonal_patterns |->
          /\ times_present # << >>
          /\ SpanDays(Extremes(times_present)[1], Extremes(times_present)[2]) > 30
          /\ \E k \in 1..Len(found) : found[k].has_cycles,
      increasing_metrics |-> increasing_metrics,
      decreasing_metrics |-> decreasing_metrics,
      trend_strength |-> trend_strength,
      time_series_analysis |-> time_series_analysis,
      forecast_indicators |->
          ForecastIndicators(
              TrendDirection(Len(increasing_metrics), Len(decreasing_metrics)),
              Len(times_present),
              increasing_metrics \o decreasing_metrics) ]

TrendsOf(df, datetime_col, numeric_cols, found) ==
    TrendsFrom(SelectSeq(Column(df, datetime_col),
                         LAMBDA c : IsNum(c) \/ IsDate(c)),
               found,
               MetricsOf(numeric_cols, found, "increasing"),
               MetricsOf(numeric_cols, found, "decreasing"),
               TrendStrength(numeric_cols, found),
               TimeSeriesAnalysis(numeric_cols, found))

TrendsOver(df, datetime_col, numeric_cols) ==
    TrendsOf(df, datetime_col, numeric_cols,
             [k \in 1..Len(numeric_cols) |->
                 ColumnTrend(df, datetime_col, numeric_cols[k])])

\* mutant of _analyze_trends: the forecast indicators are written whether or
\* not a datetime column was found
_analyze_trends_NoGuard(df, sc) ==
    IF InTable(df, sc.datetime_columns) = << >>
    THEN [DefaultTrends EXCEPT
            !.forecast_indicators = ForecastIndicators("STABLE", df.n, << >>)]
    ELSE TrendsOver(df, InTable(df, sc.datetime_columns)[1],
                    InTable(df, sc.numeric_columns))

_analyze_trends(df, sc) ==
    IF InTable(df, sc.datetime_columns) = << >> THEN DefaultTrends
    ELSE TrendsOver(df, InTable(df, sc.datetime_columns)[1],
                    InTable(df, sc.numeric_columns))

(***************************************************************************)
(* MLService._generate_ml_predictions, its risk_score: with a target of    *)
(* five or more values a weighted sum of the mean, the median and the      *)
(* 0.75 and 0.9 quantiles, divided by the largest value when it exceeds 1; *)
(* 0.5 with a shorter target; without a target in the table the mean of    *)
(* the min-max scaled numeric columns, weighted by their coefficients of   *)
(* variation.  risk_score is kept to three decimals, in 1/1000.            *)
(***************************************************************************)
\* 10 * xs.quantile(0.9), xs not empty
Quantile10(xs, tenths) ==
    LET pos == (Len(xs) - 1) * tenths
        below == KthSmallest(xs, pos \div 10 + 1)
    IN  IF pos % 10 = 0 THEN 10 * below
        ELSE 10 * below + (pos % 10) * (KthSmallest(xs, pos \div 10 + 2) - below)

\* 200 * n * weighted_risk for the weights [0.2, 0.3, 0.3, 0.2], in 1/Scale
WeightedRisk(xs) ==
    40 * SumSeq(xs)
        + Len(xs) * (15 * Quantile4(xs, 2) + 15 * Quantile4(xs, 3)
                     + 4 * Quantile10(xs, 9))

\* mutant of TargetRiskScore: the weighted sum is not brought back to 0..1
TargetRiskScore_Unnormalised(xs, weighted) ==
    RoundDiv(1000 * weighted, 200 * Len(xs) * Scale)

\* weighted_risk, and min(1.0, weighted_risk / target_data.max()) above 1
TargetRiskScore(xs, weighted) ==
    IF weighted > 200 * Len(xs) * Scale
    THEN Min2(1000, RoundDiv(5 * weighted, Len(xs) * SeqMax(xs)))
    ELSE RoundDiv(1000 * weighted, 200 * Len(xs) * Scale)

\* df.select_dtypes(include=[np.number]).columns
NumberColumns(df) == ColumnsOfDtype(df, {"int64", "float64"})

\* normalized_data[col]: the missing cells filled with the column's median
\* (twice the values, to keep the median of an even count an integer)
FilledWithMedian(cells) ==
    LET xs == DropNa(cells)
    IN  IF xs = << >> THEN << >>
        ELSE [i \in 1..Len(cells) |->
                 IF IsNum(cells[i]) THEN 2 * cells[i].v
                 ELSE Quantile4(xs, 2) \div 2]

\* max(0.1, min(1.0, cv)), cv = std / (mean + 1e-8), in 1/1000; a NaN cv
\* (no value, or a single row) gives 1.0
CvWeight(filled) ==
    IF Len(filled) < 2 THEN 1000
    ELSE IF VarianceNumerator(filled) = 0 THEN 100
    ELSE IF SumSeq(filled) <= 0 THEN IF SumSeq(filled) = 0 THEN 1000 ELSE 100
    ELSE Max2(100, Min2(1000, (10 * StdFp(filled) * Len(filled)) \div SumSeq(filled)))

\* the mean over the rows of (col_data - col_min) / (col_max - col_min), in
\* 1/1000; zeros when the column holds one value or none
ScaledMean(filled) ==
    IF filled = << >> \/ SeqMax(filled) = SeqMin(filled) THEN 0
    ELSE (1000 * (SumSeq(filled) - Len(filled) * SeqMin(filled)))
             \div (Len(filled) * (SeqMax(filled) - SeqMin(filled)))

\* float(np.mean(np.dot(scaled_data, weights)))
CompositeRiskScore(df, cols) ==
    LET filled == [k \in 1..Len(cols) |-> FilledWithMedian(df.cells[cols[k]])]
        weights == [k \in 1..Len(cols) |-> CvWeight(filled[k])]
    IN  SumSeq([k \in 1..Len(cols) |-> weights[k] * ScaledMean(filled[k])])
            \div SumSeq(weights)

SetToSeq(S) ==
    [k \in 1..Cardinality(S) |->
        CHOOSE j \in S : Cardinality({i \in S : i < j}) = k - 1]

_generate_ml_predictions(df, sc) ==
    LET target_col == sc.potential_target
    IN  IF target_col = NoName \/ ~HasColumn(df, target_col)
        THEN IF NumberColumns(df) # {}
             THEN [risk_score |-> CompositeRiskScore(df, SetToSeq(NumberColumns(df)))]
             ELSE [risk_score |-> 0]
        ELSE IF Len(DropNa(Column(df, target_col))) < 5
             THEN [risk_score |-> 500]
             ELSE [risk_score |->
                      TargetRiskScore(DropNa(Column(df, target_col)),
                                      WeightedRisk(DropNa(Column(df, target_col))))]

(***************************************************************************)
(* MLService._generate_analysis_alerts.  An alert's risk_score is rounded  *)
(* to three decimals: in 1/1000.  anomaly_rate comes in 1/100 percent.     *)
(***************************************************************************)
Alert(type, message, risk_score, severity, now) ==
    [ type |-> type,
      message |-> message,
      risk_score |-> risk_score,
      severity |-> severity,
      timestamp |-> now ]

\* mutant of RiskAlerts: the alert carries the score of the predictions as
\* it is, without the floor of its level
RiskAlerts_NoFloor(risk_analysis, current_risk_score, now) ==
    IF risk_analysis.overall_risk_level = "HIGH"
    THEN << Alert("HIGH_RISK_DETECTED",
                  <<"High risk conditions detected in records",
                    risk_analysis.high_risk_records>>,
                  current_risk_score, "HIGH", now) >>
    ELSE IF risk_analysis.overall_risk_level = "CRITICAL"
    THEN << Alert("CRITICAL_RISK_DETECTED",
                  <<"Critical risk conditions detected requiring immediate attention">>,
                  current_risk_score, "CRITICAL", now) >>
    ELSE << >>

\* the if/elif on overall_risk_level
RiskAlerts(risk_analysis, current_risk_score, now) ==
    IF risk_analysis.overall_risk_level = "HIGH"
    THEN << Alert("HIGH_RISK_DETECTED",
                  <<"High risk conditions detected in records",
                    risk_analysis.high_risk_records>>,
                  Max2(700, current_risk_score), "HIGH", now) >>
    ELSE IF risk_analysis.overall_risk_level = "CRITICAL"
    THEN << Alert("CRITICAL_RISK_DETECTED",
                  <<"Critical risk conditions detected requiring immediate attention">>,
                  Max2(850, current_risk_score), "CRITICAL", now) >>
    ELSE << >>

\* anomaly_rate > 5: min(0.9, 0.4 + (anomaly_rate / 100) * 0.5)
AnomalyAlerts(anomaly_rate, now) ==
    IF anomaly_rate > 500
    THEN << Alert("ANOMALY_DETECTED",
                  <<"Unusual patterns detected in percent of data", anomaly_rate>>,
                  Min2(900, 400 + RoundDiv(anomaly_rate, 20)),
                  IF anomaly_rate > 1500 THEN "HIGH" ELSE "MEDIUM", now) >>
    ELSE << >>

\* len(df) < 100: max(0.3, 0.6 - (len(df) / 100) * 0.3)
LimitedDataAlerts(n, now) ==
    IF n < 100
    THEN << Alert("LIMITED_DATA",
                  <<"Limited data available for comprehensive analysis", n>>,
                  Max2(300, 600 - 3 * n),
                  IF n > 50 THEN "LOW" ELSE "MEDIUM", now) >>
    ELSE << >>

_generate_analysis_alerts(df, risk_analysis, anomalies, ml_predictions, now) ==
    RiskAlerts(risk_analysis, ml_predictions.risk_score, now)
        \o AnomalyAlerts(anomalies.anomaly_rate, now)
        \o LimitedDataAlerts(df.n, now)

(***************************************************************************)
(* The stored documents.  json.dump(..., default=str) writes a Python bool *)
(* as a JSON boolean and what the encoder does not know (a numpy.bool_) as *)
(* the string str() gives; json.load reads a JSON boolean as a bool and a  *)
(* JSON string as a str.  Numbers and strings are read back as written.    *)
(***************************************************************************)
JsonDumpValue(v) ==
    IF v.pytype = "bool" THEN [json |-> "boolean"] ELSE [json |-> "string"]

JsonLoadValue(t) ==
    IF t.json = "boolean" THEN [pytype |-> "bool"] ELSE [pytype |-> "str"]

JsonDump(r) ==
    [r EXCEPT !.statistical_summary =
        [k \in 1..Len(r.statistical_summary) |->
            [r.statistical_summary[k] EXCEPT !.is_normal = JsonDumpValue(@)]]]

JsonLoad(text) ==
    [text EXCEPT !.statistical_summary =
        [k \in 1..Len(text.statistical_summary) |->
            [text.statistical_summary[k] EXCEPT !.is_normal = JsonLoadValue(@)]]]

\* the file analysis_<id>.json: absent, or opened for writing and left with
\* an incomplete document, or holding a whole document
NoFile == [state |-> "absent"]
TruncatedFile == [state |-> "truncated"]
WholeFile(text) == [state |-> "whole", text |-> text]

StoreFaults == {"none", "open", "write"}

\* mutant of _store_analysis_result: no try/except around the write
_store_analysis_result_NoTry(files, dataset_id, analysis_result, store_fault) ==
    CASE store_fault = "open" -> [files |-> files, exc |-> "OSError"]
      [] store_fault = "write" ->
            [files |-> [files EXCEPT ![dataset_id] = TruncatedFile], exc |-> "OSError"]
      [] OTHER ->
            [files |-> [files EXCEPT ![dataset_id] = WholeFile(JsonDump(analysis_result))],
             exc |-> ""]

\* store_fault: makedirs/open fails ("open", the file is as before), or
\* json.dump fails after open(..., "w") emptied the file ("write"); either
\* exception is logged and swallowed
_store_analysis_result(files, dataset_id, analysis_result, store_fault) ==
    CASE store_fault = "open" -> [files |-> files, exc |-> ""]
      [] store_fault = "write" ->
            [files |-> [files EXCEPT ![dataset_id] = TruncatedFile], exc |-> ""]
      [] OTHER ->
            [files |-> [files EXCEPT ![dataset_id] = WholeFile(JsonDump(analysis_result))],
             exc |-> ""]

None == [none |-> TRUE]

\* json.load of an incomplete document raises, which is swallowed: None
load_analysis_result(files, dataset_id) ==
    IF files[dataset_id].state = "whole" THEN JsonLoad(files[dataset_id].text)
    ELSE None

(***************************************************************************)
(* MLService.analyze_dataset.  env is what the call meets outside of its   *)
(* arguments:                                                              *)
(*   hashseed          the hash seed of the process                        *)
(*   addr              where the boxed cells of an object array lie        *)
(*   now               the clock                                           *)
(*   fault             a component that fails on this call for a reason    *)
(*                     the table does not show ("none": no such failure)   *)
(*   store_fault       how writing the result file fails ("none": not)     *)
(*   zero_skew_native  skew() of a constant column is a native number      *)
(*   forest            the labels the seeded IsolationForest gives          *)
(***************************************************************************)
Components ==
    << "quality", "statistics", "risk", "trends", "anomalies",
       "ml_predictions", "predictions", "insights", "alerts", "recommendations" >>

Faults == {"none"} \cup {Components[k] : k \in 1..Len(Components)}

\* the exception classes "except Exception" catches
ExceptionClasses == {"TypeError", "ValueError", "RuntimeError", "OSError"}

ComponentExc(c, df, sc, fault) ==
    IF fault = c THEN "RuntimeError"
    ELSE CASE c = "risk" ->
                  IF RiskAssessmentRaises(df, sc) THEN "TypeError" ELSE ""
           [] c = "anomalies" ->
                  IF FitPredictRaises(df, InTable(df, sc.numeric_columns))
                  THEN "ValueError" ELSE ""
           [] OTHER -> ""

\* the exception of the first component, in call order, that raises
RECURSIVE FirstFailure(_, _, _, _)
FirstFailure(df, sc, fault, k) ==
    IF k > Len(Components) THEN ""
    ELSE LET e == ComponentExc(Components[k], df, sc, fault)
         IN  IF e # "" THEN e ELSE FirstFailure(df, sc, fault, k + 1)

ErrorResult(dataset_id, e, now) ==
    [ dataset_id |-> dataset_id,
      error |-> e,
      analysis_timestamp |-> now ]

\* the dictionary analyze_dataset builds from what its components returned
AssembleResult(df, sc, dataset_id, env, data_hash, risk_analysis, anomalies, ml_predictions, predictions) ==
    [ dataset_id |-> dataset_id,
      analysis_timestamp |-> env.now,
      data_quality_score |-> _calculate_data_quality(df),
      total_records |-> df.n,
      anomalies |-> anomalies,
      risk_level |-> risk_analysis.overall_risk_level,
      risk_score |-> ml_predictions.risk_score,
      statistical_summary |->
          _generate_statistical_insights(df, sc, env.zero_skew_native),
      risk_analysis |-> risk_analysis,
      trend_analysis |-> _analyze_trends(df, sc),
      predictions |-> predictions,
      predictions_count |-> Len(predictions),
      alerts |-> _generate_analysis_alerts(df, risk_analysis, anomalies,
                                           ml_predictions, env.now),
      analysis_hash |-> data_hash ]

PredictAndAssemble(df, sc, dataset_id, env, data_hash) ==
    AssembleResult(df, sc, dataset_id, env, data_hash,
                   _assess_risk_patterns(df, sc).val,
                   _detect_anomalies_comprehensive(df, sc, env.forest).val,
                   _generate_ml_predictions(df, sc),
                   _generate_predictions(df, sc, data_hash))

AnalysisResult(df, sc, dataset_id, env) ==
    PredictAndAssemble(df, sc, dataset_id, env,
                       DataHash(df, dataset_id, env.hashseed, env.addr))

\* the try/except of analyze_dataset: exc is the exception met ("": none)
TryExcept(exc, analysis_result, files_after, dataset_id, now) ==
    IF exc = ""
    THEN [result |-> analysis_result, raised |-> FALSE, files |-> files_after]
    ELSE IF exc \in ExceptionClasses
    THEN [ result |-> ErrorResult(dataset_id, exc, now),
           raised |-> FALSE,
           files |-> files_after ]
    ELSE [result |-> None, raised |-> TRUE, files |-> files_after]

\* the result is stored only when every component returned
StoreAndReturn(failure, analysis_result, stored, files, dataset_id, now) ==
    IF failure # ""
    THEN TryExcept(failure, analysis_result, files, dataset_id, now)
    ELSE TryExcept(stored.exc, analysis_result, stored.files, dataset_id, now)

StoreResult(failure, analysis_result, files, dataset_id, env) ==
    StoreAndReturn(failure, analysis_result,
                   _store_analysis_result(files, dataset_id, analysis_result,
                                          env.store_fault),
                   files, dataset_id, env.now)

analyze_dataset(df, sc, dataset_id, files, env) ==
    StoreResult(FirstFailure(df, sc, env.fault, 1),
                AnalysisResult(df, sc, dataset_id, env),
                files, dataset_id, env)

(***************************************************************************)
(* analyze_dataset run one component at a time.  The statistical profiler, *)
(* the risk assessor, the trend analyzer, the anomaly detector and the     *)
(* forecast generator all get the caller's DataFrame and the schema; the   *)
(* process has one numpy generator, which analyze_dataset seeds before it  *)
(* calls them.  order holds the call in progress:                          *)
(*   parts     what the components that have run returned or raised        *)
(*   rng       the numpy generator: its seed and the draws made since      *)
(*   setitems  the column assignments (df[col] = ...) made to the table    *)
(*   received  the table as analyze_dataset received it                    *)
(***************************************************************************)
AnalysisComponents == <<"statistics", "risk", "trends", "anomalies", "predictions">>

AnalysisComponentSet ==
    {AnalysisComponents[k] : k \in 1..Len(AnalysisComponents)}

\* df[name] = pd.to_datetime(df[name], errors='coerce')
SetItemDatetime(df, name) ==
    IF name = NoName THEN df
    ELSE [df EXCEPT !.cells[ColIndex(df, name)] = to_datetime(@),
                    !.dtype[ColIndex(df, name)] = "datetime64"]

\* the column _assess_risk_patterns assigns (NoName: it assigns none)
RiskTimeColumn(df, sc) ==
    IF sc.potential_target = NoName \/ ~HasColumn(df, sc.potential_target)
    THEN NoName
    ELSE IF RiskAssessmentRaises(df, sc) THEN NoName
    ELSE IF DropNa(Column(df, sc.potential_target)) = << >> THEN NoName
    ELSE IF sc.datetime_columns = << >> THEN NoName
    ELSE IF ~HasColumn(df, sc.datetime_columns[1]) THEN NoName
    ELSE sc.datetime_columns[1]

\* the column _analyze_trends assigns (NoName: it assigns none)
TrendTimeColumn(df, sc) ==
    IF InTable(df, sc.datetime_columns) = << >> THEN NoName
    ELSE InTable(df, sc.datetime_columns)[1]

\* the column component c assigns in the table it is given
AssignedColumn(c, df, sc) ==
    CASE c = "risk" -> RiskTimeColumn(df, sc)
      [] c = "trends" -> TrendTimeColumn(df, sc)
      [] OTHER -> NoName

\* the numpy generator after component c: _generate_predictions seeds it
\* and draws twice for each prediction
RngAfter(c, rng, n, data_hash) ==
    IF c = "predictions"
    THEN [seed |-> RandomSeed(data_hash), drawn |-> 2 * NumPredictions(n)]
    ELSE rng

\* what component c returns or raises on the table df
ComponentOutcome(c, df, sc, env, data_hash) ==
    CASE c = "statistics" ->
             Returns(_generate_statistical_insights(df, sc, env.zero_skew_native))
      [] c = "risk" -> _assess_risk_patterns(df, sc)
      [] c = "trends" -> Returns(_analyze_trends(df, sc))
      [] c = "anomalies" -> _detect_anomalies_comprehensive(df, sc, env.forest)
      [] OTHER -> Returns(_generate_predictions(df, sc, data_hash))

WithPart(parts, c, outcome) ==
    [d \in DOMAIN parts \cup {c} |-> IF d = c THEN outcome ELSE parts[d]]

\* the call after component c has run on the table as it is by then
AfterComponent(c, df, col, o, sc) ==
    [ df |-> SetItemDatetime(df, col),
      parts |-> WithPart(o.parts, c,
                         ComponentOutcome(c, df, sc, o.env, o.data_hash)),
      rng |-> RngAfter(c, o.rng, df.n, o.data_hash),
      setitems |-> o.setitems + (IF col = NoName THEN 0 ELSE 1) ]

\* an exception of a component ends the call
HasRaised(parts) == \E c \in DOMAIN parts : parts[c].exc # ""

\* the call as analyze_dataset begins it: the generator seeded, no
\* component run
BegunCall(df, env, data_hash) ==
    [ stage |-> "running",
      parts |-> << >>,
      rng |-> [seed |-> RandomSeed(data_hash), drawn |-> 0],
      setitems |-> 0,
      received |-> df,
      env |-> env,
      data_hash |-> data_hash ]

Advanced(o, after) ==
    [o EXCEPT !.parts = after.parts, !.rng = after.rng, !.setitems = after.setitems]

(***************************************************************************)
(* State.                                                                  *)
(***************************************************************************)
VARIABLES
    df,               \* the DataFrame of the call in progress
    schema,           \* the schema detect_schema returned for it
    synthetic_calls,  \* calls made to _create_synthetic_risk_score
    hashseed,         \* the hash seed of the running process
    pc,               \* "loaded" -> "detected" -> "analysed", or "processed"
    dataset_id,       \* the dataset id of the call in progress
    files,            \* /tmp/ml_analysis: dataset id -> analysis_<id>.json
    now,              \* the clock
    result,           \* what the last analyze_dataset call returned
    raised,           \* the last analyze_dataset call raised instead
    forest,           \* what the seeded IsolationForest labels on this data
    run,              \* what the last analyze_dataset call met (its env)
    upload,           \* the uploaded file of the dataset, as a table
    prev,             \* table and outcome of the analyze_dataset call before
    inflight,         \* analyze-dataset requests waiting on the database
    response,         \* what the last answered analyze-dataset request got
    lookup,           \* how the last analyze-dataset request's lookup went
    stored,           \* a result of the dataset has been stored successfully
    order,            \* an analyze_dataset call run component by component
    data_service,     \* the DataService object: data_cache and last_update
    cache_call,       \* the clock of the DataService and its last get_cached_data
    manager,          \* the ConnectionManager object: its list and its dict
    sockets,          \* the state of every websocket
    broadcast         \* the broadcast_to_topic call in progress

vars == <<df, schema, synthetic_calls, hashseed, pc, dataset_id, files, now,
          result, raised, forest, run, upload, prev, inflight, response, lookup,
          stored, order, data_service, cache_call, manager, sockets, broadcast>>

service == <<upload, prev, inflight, response, lookup, stored>>

\* the objects that are not part of the analysis engine
background == <<data_service, cache_call, manager, sockets, broadcast>>

HashSeeds == 0..MaxHashSeed
Addrs == 0..MaxAddr

\* dataset ids are uuid4 strings
DatasetIds == { <<"a">>, <<"b">> }

NoSchema == [potential_target |-> NoName]
NoRun == [failure |-> "", store_fault |-> "none"]
NoFiles == [d \in DatasetIds |-> NoFile]
NoLookup == [after_store |-> FALSE, hit |-> FALSE]
NoOrder == [stage |-> "idle"]

\* the service part of the state where only the engine is exercised
NoService ==
    /\ upload = None
    /\ prev = None
    /\ inflight = 0
    /\ response = None
    /\ lookup = NoLookup
    /\ stored = FALSE


(***************************************************************************)
(* DataService: the cache of update_cache and get_cached_data.  Times are  *)
(* in minutes.  The values cached are those of the database content at the *)
(* time of the update, told apart by its version.                          *)
(***************************************************************************)
Time(minute) == [minute |-> minute]

CachedTypes == {"statistics", "latest_data", "trend_data"}

\* the data types get_cached_data is asked for
DataTypes == CachedTypes \cup {"heatmap"}

\* DataService.__init__
NewDataService == [data_cache |-> EmptyDict, last_update |-> None]

\* the dict update_cache builds
CacheOf(version, utcnow) ==
    [ statistics |-> [of |-> "statistics", version |-> version],
      latest_data |-> [of |-> "latest_data", version |-> version],
      trend_data |-> [of |-> "trend_data", version |-> version],
      last_update |-> Time(utcnow) ]

\* self.data_cache = {...}
update_cache(service_object, version, utcnow) ==
    [service_object EXCEPT !.data_cache = CacheOf(version, utcnow)]

\* dict.get(key)
DictGet(dict, key) == IF key \in DOMAIN dict THEN dict[key] ELSE None

\* timedelta(minutes=5)
CacheLifetime == 5

get_cached_data(service_object, data_type, utcnow) ==
    IF service_object.data_cache = EmptyDict \/ service_object.last_update = None
    THEN None
    ELSE IF utcnow - service_object.last_update.minute > CacheLifetime THEN None
    ELSE DictGet(service_object.data_cache, data_type)

NoCall == [utcnow |-> 0, db_version |-> 0, calls |-> 0,
           data_type |-> "", returned |-> None]

\* ConnectionManager.__init__, and no websocket yet
NewManager == [active_connections |-> << >>, connection_subscriptions |-> << >>]

NoBroadcast == [pc |-> "idle"]

\* the objects as constructed
NoBackground ==
    /\ data_service = NewDataService
    /\ cache_call = NoCall
    /\ manager = NewManager
    /\ sockets = << >>
    /\ broadcast = NoBroadcast

(***************************************************************************)
(* Tables drawn for schema detection: up to MaxCols distinct column names, *)
(* up to MaxRows rows, every column one of a few cell patterns.  As read   *)
(* from a file a column with a text cell is of dtype object and any other  *)
(* column is float64; a table without rows may have either dtype.          *)
(***************************************************************************)
DistinctSeqs(S, k) ==
    {s \in [1..k -> S] : \A i, j \in 1..k : i # j => s[i] # s[j]}

ColumnPatterns(n) ==
    { [i \in 1..n |-> NaN],
      [i \in 1..n |-> Txt],
      [i \in 1..n |-> Num((i - 1) * Scale)],
      [i \in 1..n |-> IF i = 1 THEN NaN ELSE Num(i)] }

RawDtype(cells) ==
    IF \E i \in 1..Len(cells) : cells[i].k \in {"str", "date"} THEN "object"
    ELSE "float64"

RawColumns(n) ==
    { [dtype |-> d, cells |-> c] :
        d \in {"object", "float64"}, c \in ColumnPatterns(n) }

ColumnsOf(n) == {c \in RawColumns(n) : n > 0 => c.dtype = RawDtype(c.cells)}

MkTable(names, n, cs) ==
    [ columns |-> names,
      dtype |-> [j \in 1..Len(names) |-> cs[j].dtype],
      cells |-> [j \in 1..Len(names) |-> cs[j].cells],
      n |-> n ]

TablesOver(names, n) ==
    {MkTable(names, n, cs) : cs \in [1..Len(names) -> ColumnsOf(n)]}

SchemaTables ==
    UNION { UNION { TablesOver(names, n) :
                    n \in IF names = << >> THEN {0} ELSE 0..MaxRows } :
            names \in UNION {DistinctSeqs(ColumnNames, k) : k \in 0..MaxCols} }

(***************************************************************************)
(* The caller's "schema = ml_service.detect_schema(df)".                   *)
(***************************************************************************)
DetectSchema ==
    /\ pc = "loaded"
    /\ LET r == detect_schema(df, hashseed)
       IN  /\ df' = r.df
           /\ schema' = r.schema
           /\ synthetic_calls' = synthetic_calls + r.synthetic_calls
    /\ pc' = "detected"
    /\ UNCHANGED <<hashseed, dataset_id, forest, files, now, result, raised, run>>
    /\ UNCHANGED <<service, order, background>>

InitSchema ==
    /\ df \in SchemaTables
    /\ schema = NoSchema
    /\ synthetic_calls = 0
    /\ hashseed \in HashSeeds
    /\ forest \in ForestOutcomes
    /\ pc = "loaded"
    /\ dataset_id \in DatasetIds
    /\ files = NoFiles
    /\ now = 0
    /\ result = None
    /\ raised = FALSE
    /\ run = NoRun
    /\ order = NoOrder
    /\ NoBackground
    /\ NoService

NextSchema == DetectSchema

SpecSchema == InitSchema /\ [][NextSchema]_vars

(***************************************************************************)
(* Tables drawn for the engine: a float64 risk_score column of up to       *)
(* MaxTargetRows cells (in non-decreasing order, missing cells first), and *)
(* tables of other shapes.                                                 *)
(***************************************************************************)
TargetValues == {NaN, Num(0), Num(9), Num(20)}

CellRank(c) == IF IsNum(c) THEN c.v + 1 ELSE 0

SortedCells(n) ==
    {c \in [1..n -> TargetValues] :
        \A i \in 1..(n - 1) : CellRank(c[i]) <= CellRank(c[i + 1])}

FloatColumn(cells) == [dtype |-> "float64", cells |-> cells]
ObjectColumn(cells) == [dtype |-> "object", cells |-> cells]

RiskTables ==
    UNION { { MkTable(<<N_risk_score>>, n, <<FloatColumn(c)>>) : c \in SortedCells(n) } :
            n \in 1..MaxTargetRows }

\* a file with a header line and no rows: every column is of dtype object
HeaderOnlyTable ==
    MkTable(<<N_risk_score, N_wind_speed>>, 0,
            <<ObjectColumn(<< >>), ObjectColumn(<< >>)>>)

\* no rows under a numeric column
EmptyFloatTable == MkTable(<<N_risk_score>>, 0, <<FloatColumn(<< >>)>>)

\* pd.DataFrame()
NoColumnsTable == MkTable(<< >>, 0, << >>)

\* a column of epoch times whose name matches "time" and "alert"
AlertTimeTable ==
    MkTable(<<N_alert_time>>, 2, <<FloatColumn(<<Num(10), Num(20)>>)>>)

\* a numeric column without a value next to the target
MissingColumnTable ==
    MkTable(<<N_wind_speed, N_risk_score>>, 2,
            <<FloatColumn(<<NaN, NaN>>), FloatColumn(<<Num(0), Num(9)>>)>>)

\* 100 rows whose only column is risk_score = 0.9
UniformTable ==
    MkTable(<<N_risk_score>>, 100, <<FloatColumn([i \in 1..100 |-> Num(9)])>>)

\* a time column next to the target
TimedTable ==
    MkTable(<<N_timestamp, N_risk_score>>, 3,
            <<FloatColumn(<<Num(10), Num(20), Num(30)>>),
              FloatColumn(<<Num(0), Num(9), Num(20)>>)>>)

\* a feature column and no target column
FeatureTable ==
    MkTable(<<N_wind_speed>>, 3, <<FloatColumn(<<Num(0), Num(9), Num(20)>>)>>)

\* a feature column that holds one value, and no target column
ConstantFeatureTable ==
    MkTable(<<N_wind_speed>>, 3, <<FloatColumn(<<Num(9), Num(9), Num(9)>>)>>)

\* a numeric column that is neither a feature nor a target
NumberedTable ==
    MkTable(<<N_id>>, 3, <<FloatColumn(<<Num(0), Num(9), Num(20)>>)>>)

\* tables of many rows: one column of texts that are no numbers
RowCounts == {49, 50, 299, 300, 349, 350, 1199, 1200, MaxRowCount}

LongTable(n) == MkTable(<<N_id>>, n, <<ObjectColumn([i \in 1..n |-> Txt])>>)

LongTables == {LongTable(n) : n \in RowCounts}

EngineTables ==
    RiskTables \cup LongTables
               \cup { HeaderOnlyTable, EmptyFloatTable, NoColumnsTable,
                      AlertTimeTable, MissingColumnTable, UniformTable,
                      TimedTable, FeatureTable, ConstantFeatureTable,
                      NumberedTable }

(***************************************************************************)
(* The engine on one table: detect_schema, then analyze_dataset.           *)
(***************************************************************************)
\* the layouts that can be told apart: those of an object array
AddrsOf(table) == IF IsObjectArray(table) THEN Addrs ELSE {0}

\* the pandas builds that can be told apart: by a constant column of three
\* or more numbers
SkewBuildsOf(table) ==
    IF \E j \in 1..Len(table.columns) :
           /\ Len(DropNa(table.cells[j])) >= 3
           /\ AllEqual(DropNa(table.cells[j]))
    THEN BOOLEAN ELSE {FALSE}

\* what a call meets outside of its arguments
Env(fault, store_fault, addr, zero_skew_native) ==
    [ hashseed |-> hashseed, addr |-> addr, now |-> now,
      fault |-> fault, store_fault |-> store_fault,
      zero_skew_native |-> zero_skew_native, forest |-> forest ]

\* the call has returned (or raised) r
Returned(r) ==
    /\ result' = r.result
    /\ raised' = r.raised
    /\ files' = r.files

AnalyzeDataset ==
    /\ pc = "detected"
    /\ now < MaxClock
    /\ \E fault \in Faults, store_fault \in StoreFaults, addr \in AddrsOf(df),
          zero_skew_native \in SkewBuildsOf(df) :
          /\ Returned(analyze_dataset(df, schema, dataset_id, files,
                                      Env(fault, store_fault, addr, zero_skew_native)))
          /\ run' = [ failure |-> FirstFailure(df, schema, fault, 1),
                      store_fault |-> store_fault ]
    /\ now' = now + 1
    /\ pc' = "analysed"
    /\ UNCHANGED <<df, schema, synthetic_calls, hashseed, dataset_id, forest>>
    /\ UNCHANGED <<service, order, background>>

InitEngine ==
    /\ df \in EngineTables
    /\ schema = NoSchema
    /\ synthetic_calls = 0
    /\ hashseed \in HashSeeds
    /\ forest \in ForestOutcomes
    /\ pc = "loaded"
    /\ dataset_id \in DatasetIds
    /\ files = NoFiles
    /\ now = 0
    /\ result = None
    /\ raised = FALSE
    /\ run = NoRun
    /\ order = NoOrder
    /\ NoBackground
    /\ NoService

NextEngine == DetectSchema \/ AnalyzeDataset

SpecEngine == InitEngine /\ [][NextEngine]_vars

(***************************************************************************)
(* The engine on tables with a time column: detect_schema, then            *)
(* analyze_dataset.                                                        *)
(***************************************************************************)
IntColumn(cells) == [dtype |-> "int64", cells |-> cells]

\* 200 date texts, one hour apart
HourlyTimes == ObjectColumn([i \in 1..200 |-> Date(i - 1)])

\* wind_speed = 0.1, 0.2, ..., 20.0 over 200 hours
HourlyFloatTable ==
    MkTable(<<N_timestamp, N_wind_speed>>, 200,
            <<HourlyTimes, FloatColumn([i \in 1..200 |-> Num(i)])>>)

\* wind_speed in whole numbers, one more each hour and two more each tenth
\* hour: 1, 2, ..., 9, 11, 12, ..., 220
HourlyIntTable ==
    MkTable(<<N_timestamp, N_wind_speed>>, 200,
            <<HourlyTimes, IntColumn([i \in 1..200 |-> Num(Scale * (i + i \div 10))])>>)

Shapes == {"rising", "falling", "flat", "wavering"}

ShapedRows == 11

Shaped(shape, i) ==
    CASE shape = "rising" -> Num(i)
      [] shape = "falling" -> Num(ShapedRows + 1 - i)
      [] shape = "flat" -> Num(5)
      [] OTHER -> Num(i + 20 * (i % 2))

\* epoch times 1.0, 2.0, ... next to two numeric columns
ShapedTable(a, b) ==
    MkTable(<<N_timestamp, N_wind_speed, N_id>>, ShapedRows,
            << FloatColumn([i \in 1..ShapedRows |-> Num(Scale * i)]),
               FloatColumn([i \in 1..ShapedRows |-> Shaped(a, i)]),
               FloatColumn([i \in 1..ShapedRows |-> Shaped(b, i)]) >>)

\* row counts on both sides of the two guards of the trend analyzer
PairCounts == {10, 11, 50, 51}

\* epoch times 1.0, 2.0, ... next to a rising column
CountedTable(n) ==
    MkTable(<<N_timestamp, N_wind_speed>>, n,
            << FloatColumn([i \in 1..n |-> Num(Scale * i)]),
               FloatColumn([i \in 1..n |-> Num(i)]) >>)

\* twelve rows, of which ten have both a time and a value
GappyTable ==
    MkTable(<<N_timestamp, N_wind_speed>>, 12,
            << FloatColumn([i \in 1..12 |-> IF i = 3 THEN NaN ELSE Num(Scale * i)]),
               FloatColumn([i \in 1..12 |-> IF i = 7 THEN NaN ELSE Num(i)]) >>)

TrendTables ==
    {ShapedTable(a, b) : a, b \in Shapes}
        \cup {CountedTable(n) : n \in PairCounts}
        \cup {HourlyFloatTable, HourlyIntTable, TimedTable, GappyTable}

InitTrend ==
    /\ df \in TrendTables
    /\ schema = NoSchema
    /\ synthetic_calls = 0
    /\ hashseed \in HashSeeds
    /\ forest = "none"
    /\ pc = "loaded"
    /\ dataset_id = <<"a">>
    /\ files = NoFiles
    /\ now = 0
    /\ result = None
    /\ raised = FALSE
    /\ run = NoRun
    /\ order = NoOrder
    /\ NoBackground
    /\ NoService

SpecTrend == InitTrend /\ [][NextEngine]_vars

(***************************************************************************)
(* The engine on tables with feature columns next to the target, and on    *)
(* tables with a time column next to the target.                           *)
(***************************************************************************)
\* risk_score = 0.0, 0.2, ..., 1.0
RisingTarget == FloatColumn(<<Num(0), Num(2), Num(4), Num(6), Num(8), Num(10)>>)

CellsOf(vs) == FloatColumn([i \in 1..Len(vs) |-> Num(vs[i])] \o << >>)

\* six features whose correlations with the target are 0.051, 0.306,
\* 0.703, 0.548, -0.598 and 0.201
FactorTable ==
    MkTable(<<N_risk_score, N_wind_speed, N_pressure, N_humidity,
              N_temperature, N_height, N_water_level>>, 6,
            << RisingTarget,
               CellsOf(<<0, 2, 3, 2, 1, 1>>), CellsOf(<<0, 2, 3, 0, 2, 2>>),
               CellsOf(<<0, 0, 0, 0, 2, 1>>), CellsOf(<<0, 1, 0, 3, 3, 1>>),
               CellsOf(<<1, 2, 1, 2, 0, 0>>), CellsOf(<<0, 0, 3, 2, 2, 0>>) >>)

\* two features whose correlations are -0.59761 and 0.59803
CloseFactorsTable ==
    MkTable(<<N_risk_score, N_height, N_pressure>>, 6,
            << RisingTarget,
               CellsOf(<<1, 2, 1, 2, 0, 0>>), CellsOf(<<0, 0, 1, 2, 0, 2>>) >>)

\* a feature that holds one value next to one that follows the target
ConstantFactorTable ==
    MkTable(<<N_risk_score, N_humidity, N_pressure>>, 6,
            << RisingTarget,
               CellsOf(<<3, 3, 3, 3, 3, 3>>), CellsOf(<<0, 1, 2, 3, 4, 5>>) >>)

\* a feature that follows the target and shares five rows with it, and one
\* that shares six
ShortFactorTable ==
    MkTable(<<N_risk_score, N_humidity, N_pressure>>, 7,
            << FloatColumn(<<NaN, Num(0), Num(2), Num(4), Num(6), Num(8), Num(10)>>),
               FloatColumn(<<Num(0), Num(1), NaN, Num(3), Num(4), Num(5), Num(6)>>),
               CellsOf(<<9, 5, 4, 3, 2, 1, 0>>) >>)

\* a target column of negative and positive values
SignedTargetTable ==
    MkTable(<<N_risk_score>>, 6,
            <<CellsOf(<<0 - 20, 0 - 15, 0 - 10, 0 - 10, 0 - 5, 5>>)>>)

FactorTables ==
    { FactorTable, CloseFactorsTable, ConstantFactorTable, ShortFactorTable,
      SignedTargetTable }

\* n date texts, step hours apart
DatesApart(n, step) == ObjectColumn([i \in 1..n |-> Date(step * (i - 1))] \o << >>)

\* 40 hours; the risk is 0.5, 0.6, ..., 1.0 in the hours 29 to 34 and 0
\* in the others
RisingHoursTable ==
    MkTable(<<N_timestamp, N_risk_score>>, 40,
            << DatesApart(40, 1),
               FloatColumn([i \in 1..40 |->
                   IF i \in 30..35 THEN Num(i - 25) ELSE Num(0)] \o << >>) >>)

\* 40 hours; the risk is 1.0, 0.9, ..., 0.5 in the hours 29 to 34
FallingHoursTable ==
    MkTable(<<N_timestamp, N_risk_score>>, 40,
            << DatesApart(40, 1),
               FloatColumn([i \in 1..40 |->
                   IF i \in 30..35 THEN Num(40 - i) ELSE Num(0)] \o << >>) >>)

\* 24 rows twelve hours apart: the risk of the third day is 0.9, of the
\* sixth 0.8, of the eighth 1.0 and 0.4
DaysTable ==
    MkTable(<<N_timestamp, N_risk_score>>, 24,
            << DatesApart(24, 12),
               FloatColumn([i \in 1..24 |->
                   CASE (i - 1) \div 2 = 2 -> Num(9)
                     [] (i - 1) \div 2 = 5 -> Num(8)
                     [] i = 15 -> Num(10)
                     [] i = 16 -> Num(4)
                     [] OTHER -> Num(0)] \o << >>) >>)

\* n hours, the risk is 1.0 in the last one
LastHourTable(n) ==
    MkTable(<<N_timestamp, N_risk_score>>, n,
            << DatesApart(n, 1),
               FloatColumn([i \in 1..n |-> IF i = n THEN Num(10) ELSE Num(0)] \o << >>) >>)

\* epoch times 1.0, 2.0, ... next to a risk of 2.0 in every row
EpochRiskTable ==
    MkTable(<<N_timestamp, N_risk_score>>, 11,
            << FloatColumn([i \in 1..11 |-> Num(Scale * i)] \o << >>),
               FloatColumn([i \in 1..11 |-> Num(20)] \o << >>) >>)

TemporalTables ==
    { RisingHoursTable, FallingHoursTable, DaysTable, LastHourTable(10),
      LastHourTable(11), EpochRiskTable }

InitRisk ==
    /\ df \in FactorTables \cup TemporalTables
    /\ schema = NoSchema
    /\ synthetic_calls = 0
    /\ hashseed \in HashSeeds
    /\ forest \in ForestOutcomes
    /\ pc = "loaded"
    /\ dataset_id = <<"a">>
    /\ files = NoFiles
    /\ now = 0
    /\ result = None
    /\ raised = FALSE
    /\ run = NoRun
    /\ order = NoOrder
    /\ NoBackground
    /\ NoService

SpecRisk == InitRisk /\ [][NextEngine]_vars

(***************************************************************************)
(* analyze_dataset run one component at a time: its steps.                 *)
(***************************************************************************)
BeginAnalysis ==
    /\ pc = "detected"
    /\ now < MaxClock
    /\ \E addr \in AddrsOf(df), zero_skew_native \in SkewBuildsOf(df) :
          order' = BegunCall(df, Env("none", "none", addr, zero_skew_native),
                             DataHash(df, dataset_id, hashseed, addr))
    /\ pc' = "analysing"
    /\ UNCHANGED <<df, schema, synthetic_calls, hashseed, dataset_id, forest,
                   files, now, result, raised, run>>
    /\ UNCHANGED <<service, background>>

\* one component runs: any of those that have not run yet
RunComponent ==
    /\ pc = "analysing"
    /\ ~HasRaised(order.parts)
    /\ \E k \in 1..Len(AnalysisComponents) :
          /\ AnalysisComponents[k] \notin DOMAIN order.parts
          /\ LET after == AfterComponent(AnalysisComponents[k], df,
                              AssignedColumn(AnalysisComponents[k], df, schema),
                              order, schema)
             IN  /\ df' = after.df
                 /\ order' = Advanced(order, after)
    /\ UNCHANGED <<schema, synthetic_calls, hashseed, pc, dataset_id, forest,
                   files, now, result, raised, run>>
    /\ UNCHANGED <<service, background>>

\* the components are through: the rest of analyze_dataset
FinishAnalysis ==
    /\ pc = "analysing"
    /\ HasRaised(order.parts) \/ DOMAIN order.parts = AnalysisComponentSet
    /\ Returned(analyze_dataset(df, schema, dataset_id, files, order.env))
    /\ run' = [ failure |-> FirstFailure(df, schema, "none", 1),
                store_fault |-> "none" ]
    /\ order' = [order EXCEPT !.stage = "returned"]
    /\ now' = now + 1
    /\ pc' = "analysed"
    /\ UNCHANGED <<df, schema, synthetic_calls, hashseed, dataset_id, forest>>
    /\ UNCHANGED <<service, background>>

\* the components in the order analyze_dataset calls them, up to the k-th
RECURSIVE CallOrder(_, _, _)
CallOrder(k, o, sc) ==
    IF k = 0 THEN [df |-> o.received, parts |-> << >>, rng |-> o.rng, setitems |-> 0]
    ELSE LET before == CallOrder(k - 1, o, sc)
         IN  IF HasRaised(before.parts) THEN before
             ELSE AfterComponent(AnalysisComponents[k], before.df,
                                 AssignedColumn(AnalysisComponents[k], before.df, sc),
                                 [o EXCEPT !.parts = before.parts,
                                           !.rng = before.rng,
                                           !.setitems = before.setitems],
                                 sc)

\* a time column with a text that is no date, next to the target
GappedTable ==
    MkTable(<<N_timestamp, N_risk_score>>, 3,
            <<ObjectColumn(<<Num(10), Txt, Num(30)>>),
              FloatColumn(<<Num(0), Num(9), Num(20)>>)>>)

OrderTables ==
    { TimedTable, GappedTable, AlertTimeTable, FeatureTable, UniformTable,
      MissingColumnTable, ShapedTable("rising", "falling"),
      ShapedTable("wavering", "flat") }

InitOrder ==
    /\ df \in OrderTables
    /\ schema = NoSchema
    /\ synthetic_calls = 0
    /\ hashseed \in HashSeeds
    /\ forest \in ForestOutcomes
    /\ pc = "loaded"
    /\ dataset_id = <<"a">>
    /\ files = NoFiles
    /\ now = 0
    /\ result = None
    /\ raised = FALSE
    /\ run = NoRun
    /\ order = NoOrder
    /\ NoBackground
    /\ NoService

NextOrder == DetectSchema \/ BeginAnalysis \/ RunComponent \/ FinishAnalysis

SpecOrder == InitOrder /\ [][NextOrder]_vars

(***************************************************************************)
(* The service around the engine, for one uploaded dataset.  The upload's  *)
(* background task runs the engine once; the analyze-dataset route first   *)
(* looks the stored result up, and on a miss waits on the database and     *)
(* then runs the engine itself.  Each run reads the uploaded file anew.    *)
(* A restart gives the service a new process.                              *)
(***************************************************************************)
PairTable == MkTable(<<N_risk_score>>, 2, <<FloatColumn(<<Num(0), Num(9)>>)>>)

ServiceTables == {TimedTable, FeatureTable, PairTable}

\* the component failures drawn for the service
ServiceFaults == {"none", "anomalies"}

\* pd.read_csv(file_path); detect_schema(df); analyze_dataset(df, schema, id)
EngineRun(d, failure, store_fault, env) ==
    /\ df' = d.df
    /\ schema' = d.schema
    /\ synthetic_calls' = synthetic_calls + d.synthetic_calls
    /\ Returned(analyze_dataset(d.df, d.schema, dataset_id, files, env))
    /\ run' = [failure |-> failure, store_fault |-> store_fault]
    /\ prev' = IF "predictions" \in DOMAIN result
               THEN [ df |-> df,
                      predictions |-> result.predictions,
                      analysis_hash |-> result.analysis_hash ]
               ELSE None
    /\ stored' = (stored \/ (failure = "" /\ store_fault = "none"))
    /\ now' = now + 1

RunEngine(d, fault, store_fault, addr, zero_skew_native) ==
    EngineRun(d, FirstFailure(d.df, d.schema, fault, 1), store_fault,
              Env(fault, store_fault, addr, zero_skew_native))

\* detect_schema has returned d: the engine runs on it
RunEngineOn(d) ==
    \E fault \in ServiceFaults, store_fault \in StoreFaults,
       addr \in AddrsOf(d.df), zero_skew_native \in SkewBuildsOf(d.df) :
       RunEngine(d, fault, store_fault, addr, zero_skew_native)

\* the background task of the upload (process_uploaded_data)
ProcessUploadedData ==
    /\ pc = "loaded"
    /\ now < MaxClock
    /\ RunEngineOn(detect_schema(upload, hashseed))
    /\ pc' = "processed"
    /\ UNCHANGED <<hashseed, dataset_id, forest, upload, inflight, response, lookup,
                   order, background>>

\* GET /ml/analyze-dataset/{dataset_id} up to "await db.execute"
RouteLookup ==
    LET existing_analysis == load_analysis_result(files, dataset_id)
    IN  /\ existing_analysis = None => inflight < MaxInflight
        /\ lookup' = [after_store |-> stored, hit |-> existing_analysis # None]
        /\ IF existing_analysis # None
           THEN response' = existing_analysis /\ inflight' = inflight
           ELSE response' = response /\ inflight' = inflight + 1
        /\ UNCHANGED <<df, schema, synthetic_calls, hashseed, pc, dataset_id, forest,
                       files, now, result, raised, run, upload, prev, stored,
                       order, background>>

\* the rest of the route for a request that missed the lookup
RouteAnalyze ==
    /\ inflight > 0
    /\ now < MaxClock
    /\ RunEngineOn(detect_schema(upload, hashseed))
    /\ response' = result'
    /\ inflight' = inflight - 1
    /\ UNCHANGED <<hashseed, pc, dataset_id, forest, upload, lookup, order, background>>

\* generate_mock_analysis: the levels random.choice draws from
MockRiskLevels == {"LOW", "MEDIUM", "HIGH"}

\* what generate_mock_analysis returns when random.choice gives risk_level
generate_mock_analysis(id, clock, risk_level) ==
    [ dataset_id |-> id,
      analysis_timestamp |-> clock,
      risk_level |-> risk_level,
      risk_analysis |-> [overall_risk_level |-> risk_level],
      predictions_count |-> 12,
      alert_types |-> CASE risk_level = "HIGH" -> <<"HIGH_RISK_DETECTED">>
                        [] risk_level = "MEDIUM" -> <<"PATTERN_DETECTED">>
                        [] OTHER -> << >> ]

\* the rest of the route for a request that missed the lookup and whose
\* dataset is not in the database, or whose file cannot be read
RouteMock ==
    /\ inflight > 0
    /\ \E risk_level \in MockRiskLevels :
           response' = generate_mock_analysis(dataset_id, now, risk_level)
    /\ inflight' = inflight - 1
    /\ UNCHANGED <<df, schema, synthetic_calls, hashseed, pc, dataset_id, forest, files,
                   now, result, raised, run, upload, prev, lookup, stored, order, background>>

\* the service is started again: a new process, waiting requests are lost
Restart ==
    /\ \E h \in HashSeeds \ {hashseed} : hashseed' = h
    /\ inflight' = 0
    /\ UNCHANGED <<df, schema, synthetic_calls, pc, dataset_id, forest, files, now,
                   result, raised, run, upload, prev, response, lookup, stored,
                   order, background>>

Init ==
    /\ upload \in ServiceTables
    /\ df = upload
    /\ schema = NoSchema
    /\ synthetic_calls = 0
    /\ hashseed \in HashSeeds
    /\ forest \in ForestOutcomes
    /\ pc = "loaded"
    /\ dataset_id \in DatasetIds
    /\ files = NoFiles
    /\ now = 0
    /\ result = None
    /\ raised = FALSE
    /\ run = NoRun
    /\ prev = None
    /\ inflight = 0
    /\ response = None
    /\ lookup = NoLookup
    /\ stored = FALSE
    /\ order = NoOrder
    /\ NoBackground

Next == ProcessUploadedData \/ RouteLookup \/ RouteAnalyze \/ RouteMock \/ Restart

Spec == Init /\ [][Next]_vars

(***************************************************************************)
(* The result store of one dataset in one process: the upload is analysed  *)
(* in the background while requests for its analysis are answered.         *)
(***************************************************************************)
InitStore ==
    /\ upload = PairTable
    /\ df = upload
    /\ schema = NoSchema
    /\ synthetic_calls = 0
    /\ hashseed = 0
    /\ forest = "none"
    /\ pc = "loaded"
    /\ dataset_id = <<"a">>
    /\ files = NoFiles
    /\ now = 0
    /\ result = None
    /\ raised = FALSE
    /\ run = NoRun
    /\ prev = None
    /\ inflight = 0
    /\ response = None
    /\ lookup = NoLookup
    /\ stored = FALSE
    /\ order = NoOrder
    /\ NoBackground

NextStore == ProcessUploadedData \/ RouteLookup \/ RouteAnalyze \/ RouteMock

SpecStore == InitStore /\ [][NextStore]_vars

(***************************************************************************)
(* The DataService on its own: the clock, the database and the two cache   *)
(* operations.                                                             *)
(***************************************************************************)
\* the analysis engine at rest
EngineIdle ==
    /\ df = NoColumnsTable
    /\ schema = NoSchema
    /\ synthetic_calls = 0
    /\ hashseed = 0
    /\ forest = "none"
    /\ pc = "loaded"
    /\ dataset_id = <<"a">>
    /\ files = NoFiles
    /\ now = 0
    /\ result = None
    /\ raised = FALSE
    /\ run = NoRun
    /\ order = NoOrder
    /\ NoService

engine == <<df, schema, synthetic_calls, hashseed, pc, dataset_id, files, now,
            result, raised, forest, run, order, service>>

\* a minute passes
Tick ==
    /\ cache_call.utcnow < MaxMinutes
    /\ cache_call' = [cache_call EXCEPT !.utcnow = @ + 1]
    /\ UNCHANGED <<engine, data_service, manager, sockets, broadcast>>

\* the content of the database changes
StoreCoastalData ==
    /\ cache_call.db_version < MaxVersion
    /\ cache_call' = [cache_call EXCEPT !.db_version = @ + 1]
    /\ UNCHANGED <<engine, data_service, manager, sockets, broadcast>>

UpdateCache ==
    /\ data_service' = update_cache(data_service, cache_call.db_version, cache_call.utcnow)
    /\ UNCHANGED <<engine, cache_call, manager, sockets, broadcast>>

GetCachedData ==
    /\ cache_call.calls < MaxCalls
    /\ \E data_type \in DataTypes :
           cache_call' = [cache_call EXCEPT
                            !.calls = @ + 1,
                            !.data_type = data_type,
                            !.returned = get_cached_data(data_service, data_type,
                                                         cache_call.utcnow)]
    /\ UNCHANGED <<engine, data_service, manager, sockets, broadcast>>

InitCache == EngineIdle /\ NoBackground

NextCache == Tick \/ StoreCoastalData \/ UpdateCache \/ GetCachedData

SpecCache == InitCache /\ [][NextCache]_vars

(***************************************************************************)
(* ConnectionManager and the /ws endpoint.  The server runs one event      *)
(* loop: a coroutine runs until it awaits, so a step is the code between   *)
(* two awaits.  broadcast_to_topic is suspended at each send_text; connect *)
(* and disconnect run in the endpoint tasks of the websockets.  A          *)
(* websocket is "new" before it connects, "open" while its endpoint task   *)
(* waits for messages, "dropped" when the client has gone and the task has *)
(* not noticed, "closed" when the task has ended.                          *)
(* broadcast holds the call in progress:                                   *)
(*   index         the position of the list iterator                       *)
(*   connection    the websocket whose send_text is awaited                *)
(*   disconnected  the local list of the same name                         *)
(*   attempts      how often send_text was called for each websocket       *)
(*   stayed        the websockets subscribed to the topic when the call    *)
(*                 began and connected ever since                          *)
(***************************************************************************)
Sockets == 1..MaxSockets

Topics == {"alerts", "mumbai"}

Members(list) == {list[k] : k \in 1..Len(list)}

\* list.remove(item): the first occurrence is taken out
Remove(list, item) ==
    LET at == CHOOSE k \in 1..Len(list) :
                  list[k] = item /\ \A j \in 1..(k - 1) : list[j] # item
    IN  SubSeq(list, 1, at - 1) \o SubSeq(list, at + 1, Len(list))

\* del dict[key]
Without(dict, key) == [k \in DOMAIN dict \ {key} |-> dict[k]]

\* ConnectionManager.connect after "await websocket.accept()"
connect(mgr, websocket) ==
    [ active_connections |-> Append(mgr.active_connections, websocket),
      connection_subscriptions |->
          (websocket :> << >>) @@ mgr.connection_subscriptions ]

\* ConnectionManager.disconnect
disconnect(mgr, websocket) ==
    [ active_connections |->
          IF websocket \in Members(mgr.active_connections)
          THEN Remove(mgr.active_connections, websocket)
          ELSE mgr.active_connections,
      connection_subscriptions |->
          IF websocket \in DOMAIN mgr.connection_subscriptions
          THEN Without(mgr.connection_subscriptions, websocket)
          ELSE mgr.connection_subscriptions ]

\* ConnectionManager.subscribe up to its send_text
subscribe(mgr, websocket, topics) ==
    IF websocket \in DOMAIN mgr.connection_subscriptions
    THEN [mgr EXCEPT !.connection_subscriptions[websocket] = @ \o topics]
    ELSE mgr

\* "connection in self.connection_subscriptions and topic in ...[connection]"
IsSubscribed(mgr, connection, topic) ==
    /\ connection \in DOMAIN mgr.connection_subscriptions
    /\ topic \in Members(mgr.connection_subscriptions[connection])

\* the for loop of broadcast_to_topic from iterator position index on, up
\* to its next send_text: the list is read at each turn
RECURSIVE NextSend(_, _, _)
NextSend(mgr, topic, index) ==
    IF index >= Len(mgr.active_connections)
    THEN [found |-> FALSE, index |-> index]
    ELSE IF IsSubscribed(mgr, mgr.active_connections[index + 1], topic)
    THEN [ found |-> TRUE, index |-> index + 1,
           connection |-> mgr.active_connections[index + 1] ]
    ELSE NextSend(mgr, topic, index + 1)

\* "for connection in disconnected: self.disconnect(connection)"
RECURSIVE CleanUp(_, _)
CleanUp(mgr, disconnected) ==
    IF disconnected = << >> THEN mgr
    ELSE CleanUp(disconnect(mgr, Head(disconnected)), Tail(disconnected))

\* the call goes on from iterator position index: to its next send_text, or
\* through the clean-up to its end
Resume(call, index) ==
    LET next == NextSend(manager, call.topic, index)
    IN  IF next.found
        THEN /\ broadcast' = [call EXCEPT !.pc = "sending",
                                          !.index = next.index,
                                          !.connection = next.connection]
             /\ manager' = manager
        ELSE /\ broadcast' = [call EXCEPT !.pc = "done", !.index = next.index,
                                          !.connection = 0]
             /\ manager' = CleanUp(manager, call.disconnected)

\* the call in progress no longer counts websocket as connected throughout
Left(websocket) ==
    IF broadcast.pc = "sending"
    THEN [broadcast EXCEPT !.stayed = @ \ {websocket}]
    ELSE broadcast

\* /ws: manager.connect(websocket)
Connect ==
    \E websocket \in Sockets :
        /\ sockets[websocket] = "new"
        /\ sockets' = [sockets EXCEPT ![websocket] = "open"]
        /\ manager' = connect(manager, websocket)
        /\ UNCHANGED <<engine, data_service, cache_call, broadcast>>

\* /ws: a subscribe message for one topic the websocket has not yet
Subscribe ==
    \E websocket \in Sockets, topic \in Topics :
        /\ sockets[websocket] = "open"
        /\ ~IsSubscribed(manager, websocket, topic)
        /\ manager' = subscribe(manager, websocket, <<topic>>)
        /\ UNCHANGED <<engine, data_service, cache_call, sockets, broadcast>>

\* the client of a websocket goes away
Drop ==
    \E websocket \in Sockets :
        /\ sockets[websocket] = "open"
        /\ sockets' = [sockets EXCEPT ![websocket] = "dropped"]
        /\ broadcast' = Left(websocket)
        /\ UNCHANGED <<engine, data_service, cache_call, manager>>

\* /ws: receive_text raises WebSocketDisconnect, manager.disconnect(websocket)
EndpointDisconnect ==
    \E websocket \in Sockets :
        /\ sockets[websocket] = "dropped"
        /\ sockets' = [sockets EXCEPT ![websocket] = "closed"]
        /\ manager' = disconnect(manager, websocket)
        /\ broadcast' = Left(websocket)
        /\ UNCHANGED <<engine, data_service, cache_call>>

\* broadcast_to_topic(message, topic) is called
BroadcastToTopic ==
    \E topic \in Topics :
        /\ broadcast.pc \in {"idle", "done"}
        /\ Resume([ pc |-> "idle", topic |-> topic, index |-> 0, connection |-> 0,
                    disconnected |-> << >>,
                    attempts |-> [w \in Sockets |-> 0],
                    stayed |-> {w \in Members(manager.active_connections) :
                                   /\ IsSubscribed(manager, w, topic)
                                   /\ sockets[w] = "open"} ],
                  0)
        /\ UNCHANGED <<engine, data_service, cache_call, sockets>>

\* the awaited send_text returns, or raises when the client has gone
SendReturns ==
    /\ broadcast.pc = "sending"
    /\ LET sent == [broadcast EXCEPT !.attempts[broadcast.connection] = @ + 1]
       IN  IF sockets[broadcast.connection] = "open"
           THEN Resume(sent, broadcast.index)
           ELSE Resume([sent EXCEPT !.disconnected = Append(@, broadcast.connection)],
                       broadcast.index)
    /\ UNCHANGED <<engine, data_service, cache_call, sockets>>

InitSocket ==
    /\ EngineIdle
    /\ data_service = NewDataService
    /\ cache_call = NoCall
    /\ manager = NewManager
    /\ sockets = [w \in Sockets |-> "new"]
    /\ broadcast = NoBroadcast

NextSocket ==
    Connect \/ Subscribe \/ Drop \/ EndpointDisconnect \/ BroadcastToTopic
        \/ SendReturns

SpecSocket == InitSocket /\ [][NextSocket]_vars

(***************************************************************************)
(* Properties of detect_schema.                                            *)
(***************************************************************************)
MatchesTarget(name) == ContainsAny(Lower(name), TargetKeywords)
MatchesFeature(name) == ContainsAny(Lower(name), FeatureKeywords)

\* the columns the table was given with (schema['columns'])
SomeColumn(P(_)) == \E j \in 1..Len(schema.columns) : P(schema.columns[j])

\* C7: when a column name contains risk, threat, danger, alert or score
\* (case-insensitive), detect_schema names one of those columns as the
\* target, never calls the synthetic-target construction and adds no
\* synthetic_risk_score column; the construction runs only when no column
\* name matches.
C7_ExplicitTargetNoSynthetic ==
    pc = "detected" =>
        /\ SomeColumn(MatchesTarget) =>
              /\ MatchesTarget(schema.potential_target)
              /\ \E j \in 1..Len(schema.columns) :
                    schema.columns[j] = schema.potential_target
              /\ synthetic_calls = 0
              /\ df.columns = schema.columns
        /\ synthetic_calls > 0 => ~SomeColumn(MatchesTarget)

\* a table with an upper-case target name and a feature column was processed
C7_Witness ==
    /\ pc = "detected"
    /\ schema.potential_target = N_Threat_Level
    /\ Len(schema.columns) = 2
    /\ df.n > 0
    /\ schema.potential_features # << >>

\* C8 (as claimed): with no target-keyword column and no feature-keyword
\* column, the table gains a synthetic target column that is 0 in every row,
\* so potential_target names a column of the table.
C8_AllZeroSyntheticColumn ==
    (/\ pc = "detected"
     /\ df.n > 0
     /\ ~SomeColumn(MatchesTarget)
     /\ ~SomeColumn(MatchesFeature)) =>
        /\ HasColumn(df, schema.potential_target)
        /\ \A i \in 1..df.n : Column(df, schema.potential_target)[i] = Num(0)

(***************************************************************************)
(* Properties of analyze_dataset on one table.                             *)
(***************************************************************************)
Analysed == pc = "analysed"
IsError(r) == "error" \in DOMAIN r
Succeeded == Analysed /\ ~raised /\ ~IsError(result)

\* the non-missing values of the target column of the analysed table
TargetData == DropNa(Column(df, schema.potential_target))
HasTarget == HasColumn(df, schema.potential_target)

\* how many non-missing target values exceed min(1, mean + k * std)
Exceeding(k) ==
    LET st == TargetStats(TargetData)
    IN  Cardinality({i \in 1..Len(TargetData) :
            \/ TargetData[i] > Scale
            \/ /\ st.n >= 2
               /\ st.n * TargetData[i] > st.sum
               /\ (st.n - 1) * (st.n * TargetData[i] - st.sum)
                             * (st.n * TargetData[i] - st.sum)
                      > k * k * st.n * st.var_num})

\* C2: analyze_dataset never raises to its caller; when a component fails
\* the result carries exactly dataset_id, error and analysis_timestamp; and
\* when no component fails the result is no error result, whether or not
\* persisting it failed.
C2_NeverRaises ==
    Analysed =>
        /\ ~raised
        /\ run.failure # "" =>
              /\ DOMAIN result = {"dataset_id", "error", "analysis_timestamp"}
              /\ result.dataset_id = dataset_id
              /\ result.error = run.failure
        /\ run.failure = "" =>
              /\ ~IsError(result)
              /\ result.dataset_id = dataset_id

\* a successful analysis whose result file could not be written, and a
\* failed component answered with an error result
C2_Witness ==
    /\ Analysed
    /\ run.failure = ""
    /\ run.store_fault = "write"
    /\ ~IsError(result)
    /\ files[dataset_id] = TruncatedFile

C2_WitnessComponentFailure ==
    /\ Analysed
    /\ run.failure = "TypeError"
    /\ IsError(result)

\* C3 (as claimed): for a table of zero rows analyze_dataset raises nothing
\* and returns a result that contains an error field.
C3_EmptyTableYieldsError ==
    (Analysed /\ df.n = 0) => (~raised /\ IsError(result))

\* C4: with at least one non-missing target value, overall_risk_level is
\* CRITICAL if more than 15% of the non-missing target values exceed the
\* critical threshold, else HIGH if more than 25% exceed the high threshold,
\* else MEDIUM if more than 10% exceed the high threshold, else LOW; and the
\* top-level risk_level is the same value.
C4_RiskLevelRule ==
    (Succeeded /\ HasTarget /\ TargetData # << >>) =>
        LET n == Len(TargetData)
            level == IF 100 * Exceeding(2) > 15 * n THEN "CRITICAL"
                     ELSE IF 100 * Exceeding(1) > 25 * n THEN "HIGH"
                     ELSE IF 100 * Exceeding(1) > 10 * n THEN "MEDIUM"
                     ELSE "LOW"
        IN  /\ result.risk_analysis.overall_risk_level = level
            /\ result.risk_level = level

\* the CRITICAL and the HIGH check both match, and the first one wins
C4_Witness ==
    /\ Succeeded /\ HasTarget /\ TargetData # << >>
    /\ result.risk_level = "CRITICAL"
    /\ 100 * Exceeding(1) > 25 * Len(TargetData)

\* 100 rows whose only column is risk_score = 0.9
IsUniformTable ==
    /\ df.columns = <<N_risk_score>>
    /\ df.n = 100
    /\ \A i \in 1..df.n : df.cells[1][i] = Num(9)

\* C5 (amended): for 100 rows whose only column is risk_score = 0.9 the
\* analysis reports overall_risk_level = LOW: the standard deviation is 0,
\* the thresholds equal 0.9, and no record is strictly above them.
C5_UniformIsLow ==
    (Succeeded /\ IsUniformTable) =>
        /\ result.risk_analysis.overall_risk_level = "LOW"
        /\ result.risk_analysis.high_risk_records = 0

C5_Witness == Succeeded /\ IsUniformTable /\ result.total_records = 100

\* C5 (as claimed): the same table is reported as CRITICAL.
C5_UniformIsCritical ==
    (Succeeded /\ IsUniformTable) =>
        result.risk_analysis.overall_risk_level = "CRITICAL"

\* every non-missing target value is below mean - std (a NaN std compares
\* false)
AllBelowMeanMinusStd ==
    LET st == TargetStats(TargetData)
    IN  \A i \in 1..Len(TargetData) :
            /\ st.n >= 2
            /\ st.n * TargetData[i] < st.sum
            /\ (st.n - 1) * (st.n * TargetData[i] - st.sum)
                          * (st.n * TargetData[i] - st.sum)
                   > st.n * st.var_num

C1_IdenticalRuns ==
    (/\ prev # None
     /\ "predictions" \in DOMAIN result
     /\ prev.df = df) =>
        /\ result.predictions = prev.predictions
        /\ result.analysis_hash = prev.analysis_hash

\* C9 (as claimed): once a result of the dataset has been stored
\* successfully, every later analyze-dataset request is answered from the
\* lookup, without running the engine again.
C9_ServedFromLookup == lookup.after_store => lookup.hit

\* the last analyze_dataset call wrote its result to the store
StoredLastResult ==
    /\ "predictions" \in DOMAIN result
    /\ run.failure = ""
    /\ run.store_fault = "none"

\* C10 (as claimed): the result store is a key-value map by dataset id:
\* load returns None for an id nothing was stored for, after a store it
\* returns the stored result in full (also when it replaced an older one),
\* and storing for one id leaves every other id as it was.
C10_StoreIsKeyValueMap ==
    /\ \A d \in DatasetIds :
           files[d] = NoFile => load_analysis_result(files, d) = None
    /\ StoredLastResult => load_analysis_result(files, dataset_id) = result
    /\ \A d \in DatasetIds \ {dataset_id} : files[d] = NoFile

(***************************************************************************)
(* Scores, rates and percentages of a successful analysis.                 *)
(***************************************************************************)
\* data_quality_score is in 1/10, anomaly_rate and the outlier percentages
\* in 1/100 percent, the risk_distribution percentages in 1/10 percent
InPercentRange(v, unit) == v >= 0 /\ v <= 100 * unit

HasRiskDistribution == result.risk_analysis.risk_distribution # EmptyDict

\* C11: on every table whose analysis produces them, data_quality_score and
\* anomaly_rate lie in [0, 100], and so do every percentage of
\* risk_distribution and every per-column outlier percentage.
C11_ScoresInRange ==
    Succeeded =>
        /\ InPercentRange(result.data_quality_score, 10)
        /\ InPercentRange(result.anomalies.anomaly_rate, 100)
        /\ HasRiskDistribution =>
              \A f \in DOMAIN result.risk_analysis.risk_distribution :
                  InPercentRange(result.risk_analysis.risk_distribution[f], 10)
        /\ \A k \in 1..Len(result.statistical_summary) :
               InPercentRange(result.statistical_summary[k].outliers.percentage, 100)

\* an analysis with anomalies in more than one row, an outlier in a column
\* and records in more than one risk bucket
C11_Witness ==
    /\ Succeeded
    /\ result.anomalies.total_anomalies > 1
    /\ result.anomalies.anomaly_rate > 0
    /\ result.data_quality_score > 0
    /\ HasRiskDistribution
    /\ result.risk_analysis.risk_distribution.low_percentage > 0
    /\ result.risk_analysis.risk_distribution.high_percentage > 0
    /\ \E k \in 1..Len(result.statistical_summary) :
           result.statistical_summary[k].outliers.percentage > 0

(***************************************************************************)
(* The number of predictions.                                              *)
(***************************************************************************)
\* C12: a successful analysis of a table of n rows yields exactly
\* min(24, max(6, n div 50)) predictions, between 6 and 24; the number does
\* not decrease as the row count grows up to n; and predictions_count is
\* the length of the predictions list.
C12_PredictionCount ==
    Succeeded =>
        LET n == df.n
            expected == IF n \div 50 < 6 THEN 6
                        ELSE IF n \div 50 > 24 THEN 24
                        ELSE n \div 50
        IN  /\ Len(result.predictions) = expected
            /\ Len(result.predictions) >= 6
            /\ Len(result.predictions) <= 24
            /\ result.predictions_count = Len(result.predictions)
            /\ \A m \in 0..(n - 1) : NumPredictions(m) <= NumPredictions(m + 1)

\* the lower limit, a count in between and the upper limit are all met:
\* here the table whose row count makes n div 50 exceed 24
C12_Witness ==
    /\ Succeeded
    /\ df.n > 24 * 50 + 49
    /\ Len(result.predictions) = 24

C12_WitnessBetween ==
    /\ Succeeded
    /\ Len(result.predictions) = 7

(***************************************************************************)
(* The range of the predicted values.  predicted_value is in 1/(100*Scale) *)
(* and a cell in 1/Scale.                                                  *)
(***************************************************************************)
\* C13 (as claimed): every predicted_value lies within the observed
\* [min, max] of the target column of the analysed table, whether the
\* target is an explicit column or the synthesized one.
C13_PredictionsWithinTargetRange ==
    (Succeeded /\ HasTarget /\ TargetData # << >>) =>
        \A k \in 1..Len(result.predictions) :
            /\ IsNum(result.predictions[k].predicted_value)
            /\ result.predictions[k].predicted_value.v >= 100 * SeqMin(TargetData)
            /\ result.predictions[k].predicted_value.v <= 100 * SeqMax(TargetData)

(***************************************************************************)
(* The profiler on short columns.                                          *)
(***************************************************************************)
\* what the profiler reports for the table and schema of the call
Profile == _generate_statistical_insights(df, schema, FALSE)

\* the numeric columns that hold between lo and hi non-missing values
ShortColumns(lo, hi) ==
    {j \in 1..Len(df.columns) :
        /\ IsMember(df.columns[j], schema.numeric_columns)
        /\ Len(DropNa(df.cells[j])) >= lo
        /\ Len(DropNa(df.cells[j])) <= hi}

\* the profiler has an entry for column j that reports no outlier
ReportsNoOutliers(j) ==
    \E k \in 1..Len(Profile) :
        /\ Profile[k].column = df.columns[j]
        /\ Profile[k].has_outliers = FALSE
        /\ Profile[k].outliers.count = 0
        /\ Profile[k].outliers.indices = << >>

\* C14 (as claimed): for any numeric column with fewer than 4 non-missing
\* values the profiler reports has_outliers = false and an empty outlier
\* index list (count 0) for that column.
C14_ShortColumnsReportNoOutliers ==
    pc # "loaded" => \A j \in ShortColumns(0, 3) : ReportsNoOutliers(j)

\* C14 (amended): for any numeric column with one, two or three non-missing
\* values the profiler reports has_outliers = false and an empty outlier
\* index list (count 0); a numeric column without any non-missing value has
\* no entry in the profile.
C14_ShortColumnsWithValues ==
    pc # "loaded" =>
        /\ \A j \in ShortColumns(1, 3) : ReportsNoOutliers(j)
        /\ \A j \in ShortColumns(0, 0) :
               \A k \in 1..Len(Profile) : Profile[k].column # df.columns[j]

\* a column of three values is profiled in an analysis that succeeded
C14_Witness ==
    /\ Succeeded
    /\ ShortColumns(3, 3) # {}
    /\ \A j \in ShortColumns(3, 3) : ReportsNoOutliers(j)
    /\ \E k \in 1..Len(result.statistical_summary) :
           /\ result.statistical_summary[k].count = 3
           /\ result.statistical_summary[k].has_outliers = FALSE

(***************************************************************************)
(* The fitted thresholds and the record counts.  Thresholds are in         *)
(* 1/(100*Scale), target values in 1/Scale.                                *)
(***************************************************************************)
Assessed == Succeeded /\ HasTarget /\ TargetData # << >>

Thresholds == result.risk_analysis.critical_thresholds

\* C18 (as claimed): low = max(0, mean - std), high = min(1, mean + std)
\* and critical = min(1, mean + 2 * std) of the non-missing target values,
\* with std taken as 0 when the target has a single value; these values are
\* reported in critical_thresholds and used to classify the records.
C18_ThresholdsWithZeroStd ==
    Assessed =>
        LET xs == TargetData
            mean == MeanFp(xs)
            std == IF Len(xs) = 1 THEN 0 ELSE StdFp(xs)
            low == Max2(0, mean - std)
            high == Min2(100 * Scale, mean + std)
            critical == Min2(100 * Scale, mean + 2 * std)
        IN  /\ Thresholds.low_threshold = Num(low)
            /\ Thresholds.high_threshold = Num(high)
            /\ Thresholds.critical_threshold = Num(critical)
            /\ Len(xs) = 1 =>
                  /\ result.risk_analysis.low_risk_records =
                         Cardinality({i \in 1..Len(xs) : 100 * xs[i] <= low})
                  /\ result.risk_analysis.high_risk_records =
                         Cardinality({i \in 1..Len(xs) : 100 * xs[i] > high})

\* C19 (as claimed): low_risk_records + medium_risk_records +
\* high_risk_records is the number of non-missing target values, no record
\* is counted in two of these buckets, and low_threshold <= high_threshold
\* <= critical_threshold, also when target values lie outside [0, 1].
C19_CountsPartition ==
    Assessed =>
        LET xs == TargetData
            st == TargetStats(xs)
        IN  /\ result.risk_analysis.low_risk_records
               + result.risk_analysis.medium_risk_records
               + result.risk_analysis.high_risk_records = Len(xs)
            /\ \A i \in 1..Len(xs) :
                   ~(LeLowThreshold(st, xs[i]) /\ GtHighThreshold(st, xs[i]))
            /\ Thresholds.low_threshold.v <= Thresholds.high_threshold.v
            /\ Thresholds.high_threshold.v <= Thresholds.critical_threshold.v


AlertsOfType(type) ==
    {k \in 1..Len(result.alerts) : result.alerts[k].type = type}

\* C17: every alert of a result carries type, message, a numeric risk_score
\* and severity; a HIGH_RISK_DETECTED alert, of severity HIGH and risk_score
\* at least 0.7, is present exactly when the overall risk level is HIGH, a
\* CRITICAL_RISK_DETECTED alert, of severity CRITICAL and risk_score at
\* least 0.85, exactly when it is CRITICAL, and neither when the level is
\* LOW or MEDIUM.
C17_RiskAlertsFollowLevel ==
    Succeeded =>
        /\ \A k \in 1..Len(result.alerts) :
               /\ {"type", "message", "risk_score", "severity"}
                      \subseteq DOMAIN result.alerts[k]
               /\ result.alerts[k].risk_score \in Int
        /\ (AlertsOfType("HIGH_RISK_DETECTED") # {}) <=> (result.risk_level = "HIGH")
        /\ (AlertsOfType("CRITICAL_RISK_DETECTED") # {}) <=> (result.risk_level = "CRITICAL")
        /\ \A k \in AlertsOfType("HIGH_RISK_DETECTED") :
               /\ result.alerts[k].severity = "HIGH"
               /\ result.alerts[k].risk_score >= 700
        /\ \A k \in AlertsOfType("CRITICAL_RISK_DETECTED") :
               /\ result.alerts[k].severity = "CRITICAL"
               /\ result.alerts[k].risk_score >= 850

\* a HIGH level whose predicted risk score lies below 0.7
C17_Witness ==
    /\ Succeeded
    /\ result.risk_level = "HIGH"
    /\ result.risk_score < 700
    /\ AlertsOfType("HIGH_RISK_DETECTED") # {}

\* a CRITICAL level whose predicted risk score lies above 0.85
C17_WitnessCritical ==
    /\ Succeeded
    /\ result.risk_level = "CRITICAL"
    /\ result.risk_score > 850
    /\ AlertsOfType("CRITICAL_RISK_DETECTED") # {}
    /\ AlertsOfType("LIMITED_DATA") # {}


Trends == result.trend_analysis

MetricsNamed(metrics, col) == {k \in 1..Len(metrics) : metrics[k].metric = col}

\* the table analysed has 200 rows, a timestamp column of dates one hour
\* apart and a wind_speed column that rises from each row to the next
HourlyRising ==
    /\ df.n = 200
    /\ HasColumn(df, N_timestamp)
    /\ HasColumn(df, N_wind_speed)
    /\ \A i \in 1..200 : /\ IsDate(Column(df, N_timestamp)[i])
                         /\ IsNum(Column(df, N_wind_speed)[i])
    /\ \A i \in 1..199 :
           /\ Column(df, N_timestamp)[i + 1].v = Column(df, N_timestamp)[i].v + 1
           /\ Column(df, N_wind_speed)[i + 1].v > Column(df, N_wind_speed)[i].v

\* C15: for a table of 200 rows with an hourly timestamp column and a
\* wind_speed column whose values are strictly increasing over time, the
\* analysis reports trend_direction INCREASING and wind_speed among the
\* increasing metrics.
C15_HourlyRisingIsIncreasing ==
    (Succeeded /\ HourlyRising) =>
        /\ Trends.trend_direction = "INCREASING"
        /\ MetricsNamed(Trends.increasing_metrics, N_wind_speed) # {}

TimeColumnDetected == InTable(df, schema.datetime_columns) # << >>

\* C20: with a detected datetime column, trend_direction is INCREASING iff
\* there are more increasing than decreasing metrics (and at least one),
\* DECREASING iff there are more decreasing ones (and at least one), MIXED
\* iff the two counts are equal and not zero, STABLE iff both are zero; the
\* forecast predictability is HIGH for INCREASING and for DECREASING and
\* MEDIUM otherwise.
C20_DirectionFollowsCounts ==
    (Succeeded /\ TimeColumnDetected) =>
        LET increasing_count == Len(Trends.increasing_metrics)
            decreasing_count == Len(Trends.decreasing_metrics)
        IN  /\ (Trends.trend_direction = "INCREASING")
                   <=> (increasing_count > decreasing_count /\ increasing_count >= 1)
            /\ (Trends.trend_direction = "DECREASING")
                   <=> (decreasing_count > increasing_count /\ decreasing_count >= 1)
            /\ (Trends.trend_direction = "MIXED")
                   <=> (increasing_count = decreasing_count /\ increasing_count # 0)
            /\ (Trends.trend_direction = "STABLE")
                   <=> (increasing_count = 0 /\ decreasing_count = 0)
            /\ Trends.forecast_indicators.predictability =
                   IF Trends.trend_direction \in {"INCREASING", "DECREASING"}
                   THEN "HIGH" ELSE "MEDIUM"

\* one metric rises and one falls
C20_Witness ==
    /\ Succeeded /\ TimeColumnDetected
    /\ Trends.trend_direction = "MIXED"
    /\ Len(Trends.increasing_metrics) = 1
    /\ Len(Trends.decreasing_metrics) = 1
    /\ Trends.forecast_indicators.predictability = "MEDIUM"

C20_WitnessDecreasing ==
    /\ Succeeded /\ TimeColumnDetected
    /\ Trends.trend_direction = "DECREASING"
    /\ Len(Trends.decreasing_metrics) = 2
    /\ Trends.forecast_indicators.predictability = "HIGH"

C20_WitnessStable ==
    /\ Succeeded /\ TimeColumnDetected
    /\ df.n = ShapedRows
    /\ Trends.trend_direction = "STABLE"

C20_WitnessWavering ==
    /\ Succeeded /\ TimeColumnDetected
    /\ \E k \in 1..Len(Trends.increasing_metrics) :
           Trends.increasing_metrics[k].confidence < 95

C15_WitnessFloat ==
    /\ Succeeded /\ HourlyRising
    /\ Trends.trend_direction = "INCREASING"


(***************************************************************************)
(* Properties of the components of analyze_dataset run in any order.       *)
(***************************************************************************)
\* the generator as analyze_dataset seeded it, no draw made
SeededOnly(o) == o.rng = [seed |-> RandomSeed(o.data_hash), drawn |-> 0]

\* every component that has run returned what it returns in call order
SameAsCallOrder(o, in_order) ==
    \A c \in DOMAIN o.parts \cap DOMAIN in_order.parts :
        o.parts[c] = in_order.parts[c]

\* the components leave the values of the table as they were, and in any
\* order each returns what it returns in call order
AnyOrderSameParts ==
    order.stage # "idle" =>
        /\ df = order.received
        /\ SameAsCallOrder(order, CallOrder(Len(AnalysisComponents), order, schema))

\* C16: the components only read the table and the schema and touch no
\* shared mutable state (no column of the table is assigned, the generator
\* of the process is left as it was seeded), so that in any order each
\* gives the result of the sequential order.
C16_ComponentsOnlyRead ==
    order.stage # "idle" =>
        /\ order.setitems = 0
        /\ SeededOnly(order)
        /\ df = order.received
        /\ SameAsCallOrder(order, CallOrder(Len(AnalysisComponents), order, schema))

\* the risk assessor has assigned the time column
RiskHasAssigned ==
    /\ order.stage # "idle"
    /\ DOMAIN order.parts = {"risk"}
    /\ order.setitems = 1

\* the trend analyzer ran before every other component
TrendsRanFirst ==
    /\ order.stage = "returned"
    /\ order.setitems = 2
    /\ DOMAIN order.parts = AnalysisComponentSet

\* the forecast generator has drawn from the generator of the process
ForecastHasDrawn ==
    /\ order.stage # "idle"
    /\ DOMAIN order.parts = {"predictions"}
    /\ order.rng.drawn > 0

(***************************************************************************)
(* Properties of the trend analyzer's guards.                              *)
(***************************************************************************)
\* C21: when no datetime column of the schema is in the table, the trend
\* analysis is the default one: trend_direction STABLE, no increasing and no
\* decreasing metrics, trend_strength and time_series_analysis empty,
\* seasonal_patterns false, forecast_indicators empty.
C21_NoTimeColumnDefaults ==
    (Succeeded /\ ~TimeColumnDetected) =>
        /\ Trends.trend_direction = "STABLE"
        /\ Trends.increasing_metrics = << >>
        /\ Trends.decreasing_metrics = << >>
        /\ Trends.trend_strength = << >>
        /\ Trends.time_series_analysis = << >>
        /\ Trends.seasonal_patterns = FALSE
        /\ Trends.forecast_indicators = EmptyDict

\* a table with numeric columns and without a time column was analysed
C21_Witness ==
    /\ Succeeded /\ ~TimeColumnDetected
    /\ InTable(df, schema.numeric_columns) # << >>
    /\ df.n >= 3
    /\ Trends.trend_direction = "STABLE"

\* the time column the trend analyzer takes, and the numeric columns it
\* goes through
TimeColumn == Column(df, InTable(df, schema.datetime_columns)[1])
TrendColumns == InTable(df, schema.numeric_columns)

\* the rows where the time and the value of column col are both present
Pairs(col) ==
    {i \in 1..df.n : /\ IsNum(TimeColumn[i]) \/ IsDate(TimeColumn[i])
                     /\ IsNum(Column(df, col)[i])}

\* value_range > 0 and time_range > 0
RangesPositive(col) ==
    /\ \E i, j \in Pairs(col) : Column(df, col)[i].v # Column(df, col)[j].v
    /\ \E i, j \in Pairs(col) : TimeColumn[i].v # TimeColumn[j].v

\* n * sum_x2 - sum_x ** 2, as the int64 arithmetic gives it, is not 0
DenominatorNotZero(col) ==
    LET rows == PairedRows(TimeColumn, Column(df, col))
    IN  ~IsZero(SlopeDenominator(Len(rows),
                    [p \in 1..Len(rows) |-> EpochNs(TimeColumn[rows[p]])] \o << >>))

HasStrength(col) ==
    \E k \in 1..Len(Trends.trend_strength) : Trends.trend_strength[k] = col

HasTimeSeries(col) == MetricsNamed(Trends.time_series_analysis, col) # {}

IsInEitherList(col) ==
    \/ MetricsNamed(Trends.increasing_metrics, col) # {}
    \/ MetricsNamed(Trends.decreasing_metrics, col) # {}

C22_WitnessTimeSeries ==
    /\ Succeeded /\ TimeColumnDetected
    /\ HasColumn(df, N_wind_speed)
    /\ Cardinality(Pairs(N_wind_speed)) = 51
    /\ HasStrength(N_wind_speed)
    /\ HasTimeSeries(N_wind_speed)

\* a column of 12 cells, 10 of them paired, was not fitted
C22_WitnessTen ==
    /\ Succeeded /\ TimeColumnDetected
    /\ df.n = 12
    /\ Cardinality(Pairs(N_wind_speed)) = 10
    /\ ~HasStrength(N_wind_speed)

(***************************************************************************)
(* Properties of the risk factors and of the temporal risks.               *)
(***************************************************************************)
Factors == result.risk_analysis.risk_factors

\* the risk assessor went through its features
FactorsAssessed == Succeeded /\ HasTarget /\ TargetData # << >>

\* the rows feature shares with the target, and its correlation over them
SharedRows(feature) ==
    CommonRows(Column(df, schema.potential_target), Column(df, feature))

ExactCorrelation(feature) ==
    Correlation([p \in 1..Len(SharedRows(feature)) |->
                    Column(df, feature)[SharedRows(feature)[p]].v] \o << >>,
                [p \in 1..Len(SharedRows(feature)) |->
                    Column(df, schema.potential_target)[SharedRows(feature)[p]].v] \o << >>)

FactorsNamed(feature) == {k \in 1..Len(Factors) : Factors[k].factor = feature}

\* abs(r) of feature a is at least abs(r) of feature b
AtLeastAsStrong(a, b) ==
    ~LessW(MulW(MulW(ExactCorrelation(a).c, ExactCorrelation(a).c), ExactCorrelation(b).p),
           MulW(MulW(ExactCorrelation(b).c, ExactCorrelation(b).c), ExactCorrelation(a).p))

\* a feature sharing more than 5 rows with the target is reported iff its
\* correlation is defined and abs(r) > 0.1, and its impact follows the tiers
FactorsAreTiered ==
    FactorsAssessed =>
        \A j \in 1..Len(schema.potential_features) :
            LET feature == schema.potential_features[j]
                r == ExactCorrelation(feature)
            IN  (HasColumn(df, feature) /\ Len(SharedRows(feature)) > 5) =>
                  /\ FactorsNamed(feature) # {}
                         <=> (~IsZero(r.p) /\ CorrelationExceeds(r, 1))
                  /\ \A k \in FactorsNamed(feature) :
                         Factors[k].impact =
                             IF CorrelationExceeds(r, 7) THEN "CRITICAL"
                             ELSE IF CorrelationExceeds(r, 5) THEN "HIGH"
                             ELSE IF CorrelationExceeds(r, 3) THEN "MEDIUM"
                             ELSE "LOW"

\* where feature stands in schema['potential_features']
FeaturePosition(feature) ==
    CHOOSE j \in 1..Len(schema.potential_features) : schema.potential_features[j] = feature

\* C23 as amended: a feature sharing more than 5 rows with the target is
\* reported iff its correlation r is defined and abs(r) > 0.1, with impact
\* CRITICAL above 0.7, HIGH above 0.5, MEDIUM above 0.3 and LOW otherwise,
\* and the list is in descending order of the reported abs(correlation),
\* which is abs(r) rounded to 3 decimals; factors that report the same
\* value stay in the order of the features.
C23_SortedAsReported ==
    /\ FactorsAreTiered
    /\ FactorsAssessed =>
           \A k \in 1..(Len(Factors) - 1) :
               /\ Strength(Factors[k]) >= Strength(Factors[k + 1])
               /\ Strength(Factors[k]) = Strength(Factors[k + 1])
                      => FeaturePosition(Factors[k].factor)
                             < FeaturePosition(Factors[k + 1].factor)

\* C23 as claimed: a feature sharing more than 5 rows with the target is reported iff
\* its correlation r is defined and abs(r) > 0.1, with impact CRITICAL above
\* 0.7, HIGH above 0.5, MEDIUM above 0.3 and LOW otherwise, and the list
\* is in descending order of abs(r).
C23_StrongestFactorFirst ==
    /\ FactorsAreTiered
    /\ FactorsAssessed =>
           \A k \in 1..(Len(Factors) - 1) :
               AtLeastAsStrong(Factors[k].factor, Factors[k + 1].factor)

\* five factors of all four tiers were reported, the weakest feature was not
C23_Witness ==
    /\ FactorsAssessed
    /\ Len(Factors) = 5
    /\ {Factors[k].impact : k \in 1..Len(Factors)} = {"CRITICAL", "HIGH", "MEDIUM", "LOW"}
    /\ Factors[1].factor = N_humidity /\ Factors[1].correlation = 703
    /\ Factors[2].correlation = 0 - 598 /\ Factors[2].direction = "decreases_risk"
    /\ FactorsNamed(N_wind_speed) = {}

\* a feature with five shared rows and a constant feature are not reported
FactorsLeftOut ==
    /\ FactorsAssessed
    /\ \E j \in 1..Len(schema.potential_features) :
           /\ Len(SharedRows(schema.potential_features[j])) = 5
           /\ FactorsNamed(schema.potential_features[j]) = {}
    /\ Len(Factors) = 1

\* two factors reported with the same abs(correlation), the weaker first
CloseFactorsInFeatureOrder ==
    /\ FactorsAssessed
    /\ Len(Factors) = 2
    /\ Strength(Factors[1]) = Strength(Factors[2])
    /\ ~AtLeastAsStrong(Factors[1].factor, Factors[2].factor)

TemporalRisksReported == result.risk_analysis.temporal_risks

\* the risk assessor reached its temporal analysis
TemporalAssessed ==
    /\ FactorsAssessed
    /\ schema.datetime_columns # << >>
    /\ HasColumn(df, schema.datetime_columns[1])

RiskTimes == Column(df, schema.datetime_columns[1])
RiskRows == PairedRows(RiskTimes, Column(df, schema.potential_target)) \o << >>

\* the times span more than 7 days
GroupedByDay ==
    LET present == SelectSeq(RiskTimes, LAMBDA c : IsNum(c) \/ IsDate(c))
    IN  SpanDays(Extremes(present)[1], Extremes(present)[2]) > 7

\* the values of the time bucket g
BucketValues(g) ==
    GroupValues(RiskTimes, Column(df, schema.potential_target), RiskRows, GroupedByDay, g)

\* the buckets whose mean risk exceeds the high threshold
QualifyingBuckets ==
    { g \in {TimeGroup(RiskTimes[RiskRows[p]], GroupedByDay) : p \in 1..Len(RiskRows)} :
        MeanExceeds(TargetStats(TargetData), BucketValues(g), 1) }

ReportedBuckets ==
    {TemporalRisksReported[k].time_period.at : k \in 1..Len(TemporalRisksReported)}

\* the mean risk of bucket g is at least that of bucket h
MeanAtLeast(g, h) ==
    SumSeq(BucketValues(g)) * Len(BucketValues(h))
        >= SumSeq(BucketValues(h)) * Len(BucketValues(g))

\* temporal_risks holds only buckets whose mean risk exceeds the high
\* threshold, and at most 5 of them
OnlyHighBuckets ==
    (TemporalAssessed /\ Len(RiskRows) > 10) =>
        /\ ReportedBuckets \subseteq QualifyingBuckets
        /\ Len(TemporalRisksReported) <= 5
        /\ Cardinality(ReportedBuckets) = Len(TemporalRisksReported)

\* the buckets reported are the first in time among the qualifying ones, in
\* the order of time
EarliestBucketsInTimeOrder ==
    (TemporalAssessed /\ Len(RiskRows) > 10) =>
        /\ \A g \in ReportedBuckets : \A h \in QualifyingBuckets \ ReportedBuckets : g < h
        /\ Len(TemporalRisksReported) = Min2(5, Cardinality(QualifyingBuckets))
        /\ \A k \in 1..(Len(TemporalRisksReported) - 1) :
               TemporalRisksReported[k].time_period.at
                   < TemporalRisksReported[k + 1].time_period.at

\* C24: temporal_risks holds only time buckets whose mean risk exceeds the
\* high threshold and at most 5 of them, and when more than 5 buckets
\* qualify the 5 reported are those of the highest mean risk, the highest
\* first.
C24_HighestFiveFirst ==
    /\ OnlyHighBuckets
    /\ (TemporalAssessed /\ Len(RiskRows) > 10 /\ Cardinality(QualifyingBuckets) > 5) =>
           /\ Len(TemporalRisksReported) = 5
           /\ \A g \in ReportedBuckets :
                  \A h \in QualifyingBuckets \ ReportedBuckets : MeanAtLeast(g, h)
           /\ \A k \in 1..(Len(TemporalRisksReported) - 1) :
                  MeanAtLeast(TemporalRisksReported[k].time_period.at,
                              TemporalRisksReported[k + 1].time_period.at)

\* six hours qualify, and the one of the highest mean risk is not reported
HighestBucketLeftOut ==
    /\ TemporalAssessed /\ Len(RiskRows) > 10
    /\ Cardinality(QualifyingBuckets) = 6
    /\ Len(TemporalRisksReported) = 5
    /\ \E h \in QualifyingBuckets \ ReportedBuckets :
           \A g \in ReportedBuckets : ~MeanAtLeast(g, h)

\* six hours qualify and the five reported are the highest, highest first
HighestBucketsCameFirst ==
    /\ TemporalAssessed /\ Len(RiskRows) > 10
    /\ Cardinality(QualifyingBuckets) = 6
    /\ Len(TemporalRisksReported) = 5
    /\ \A g \in ReportedBuckets :
           \A h \in QualifyingBuckets \ ReportedBuckets : MeanAtLeast(g, h)
    /\ TemporalRisksReported[1].risk_level = "HIGH"
    /\ TemporalRisksReported[5].risk_level = "MEDIUM"

\* days were reported, the later one with the higher mean
DaysReported ==
    /\ TemporalAssessed /\ GroupedByDay
    /\ Len(TemporalRisksReported) = 3
    /\ TemporalRisksReported[1].time_period = [unit |-> "day", at |-> 2]
    /\ TemporalRisksReported[1].average_risk = 900

\* ten paired rows are too few; the single bucket of epoch times is reported
TooFewRows ==
    /\ TemporalAssessed /\ Len(RiskRows) = 10
    /\ TemporalRisksReported = << >>

EpochBucketReported ==
    /\ TemporalAssessed
    /\ Len(TemporalRisksReported) = 1
    /\ TemporalRisksReported[1].average_risk = 2000
    /\ TemporalRisksReported[1].risk_level = "HIGH"

(***************************************************************************)
(* Properties of the predictions.                                          *)
(***************************************************************************)
PredictionsMade == result.predictions

\* base_confidence + confidence_variation of the k-th prediction, before the
\* clamp, in 1/10000
RawConfidence(k) ==
    7000 + 2 * df.n
         + 50 * StdNormal(RandomSeed(PredictionsMade[k].prediction_id[2]), 2 * (k - 1) + 1)

\* C25: the confidence of every prediction lies in [0.6, 0.95], for every
\* row count and every target distribution.
C25_ConfidenceInRange ==
    Succeeded =>
        \A k \in 1..Len(PredictionsMade) :
            /\ PredictionsMade[k].confidence >= 6000
            /\ PredictionsMade[k].confidence <= 9500

\* one analysis with a prediction whose raw confidence was below 0.6, one
\* whose raw confidence was within the range and kept
C25_Witness ==
    /\ Succeeded
    /\ \E k \in 1..Len(PredictionsMade) :
           RawConfidence(k) < 6000 /\ PredictionsMade[k].confidence = 6000
    /\ \E k \in 1..Len(PredictionsMade) :
           /\ RawConfidence(k) \in 6001..9499
           /\ PredictionsMade[k].confidence = RawConfidence(k)

\* a prediction on a table of 1200 rows or more whose raw confidence was
\* above 0.95
ConfidenceCapped ==
    /\ Succeeded /\ df.n >= 1200
    /\ \E k \in 1..Len(PredictionsMade) :
           RawConfidence(k) > 9500 /\ PredictionsMade[k].confidence = 9500

\* C26: the uncertainty range of every prediction is a band around its
\* value, lower <= predicted_value <= upper with the bounds 15% below and
\* above the value, also for a target column with negative values; and
\* factors_considered names at most 5 columns.
C26_BandAroundValue ==
    Succeeded =>
        \A k \in 1..Len(PredictionsMade) :
            /\ IsNum(PredictionsMade[k].predicted_value) =>
                   /\ PredictionsMade[k].uncertainty_range.lower.v
                          <= PredictionsMade[k].predicted_value.v
                   /\ PredictionsMade[k].predicted_value.v
                          <= PredictionsMade[k].uncertainty_range.upper.v
            /\ Len(PredictionsMade[k].factors_considered) <= 5

\* the bounds are the value times 0.85 and times 1.15, and factors_considered
\* holds the first numeric columns, at most 5
BoundsAreScaledValue ==
    Succeeded =>
        \A k \in 1..Len(PredictionsMade) :
            /\ PredictionsMade[k].uncertainty_range.lower
                   = Scaled(PredictionsMade[k].predicted_value, 85)
            /\ PredictionsMade[k].uncertainty_range.upper
                   = Scaled(PredictionsMade[k].predicted_value, 115)
            /\ Len(PredictionsMade[k].factors_considered)
                   = Min2(5, Len(InTable(df, schema.numeric_columns)))
            /\ PredictionsMade[k].predicted_value.v >= 0 =>
                   /\ PredictionsMade[k].uncertainty_range.lower.v
                          <= PredictionsMade[k].predicted_value.v
                   /\ PredictionsMade[k].predicted_value.v
                          <= PredictionsMade[k].uncertainty_range.upper.v

\* a negative prediction whose upper bound is below its lower bound
BandInverted ==
    /\ Succeeded
    /\ \E k \in 1..Len(PredictionsMade) :
           /\ PredictionsMade[k].predicted_value.v < 0
           /\ PredictionsMade[k].uncertainty_range.upper.v
                  < PredictionsMade[k].predicted_value.v
           /\ PredictionsMade[k].predicted_value.v
                  < PredictionsMade[k].uncertainty_range.lower.v

\* a table of seven numeric columns, of which five are named
FiveFactorsNamed ==
    /\ Succeeded
    /\ Len(InTable(df, schema.numeric_columns)) = 7
    /\ \A k \in 1..Len(PredictionsMade) : Len(PredictionsMade[k].factors_considered) = 5

(***************************************************************************)
(* Properties of the result store.                                         *)
(***************************************************************************)
\* r is a dictionary of generate_mock_analysis: it has no analysis_hash
IsMock(r) == r # None /\ ~IsError(r) /\ "analysis_hash" \notin DOMAIN r

\* C27: a call to analyze_dataset that ends in the error branch leaves the
\* result store as it was, so what can be loaded for the dataset (nothing,
\* or an earlier result) is the same before and after the call, and a
\* request answered by generate_mock_analysis leaves the store as it was.
C27_ErrorBranchWritesNothing ==
    [][ /\ (now' = now + 1 /\ IsError(result')) =>
              /\ files' = files
              /\ load_analysis_result(files', dataset_id)
                     = load_analysis_result(files, dataset_id)
        /\ (response' # response /\ IsMock(response')) => files' = files ]_vars

\* a call ended in the error branch while an earlier result was stored
C27_Witness ==
    /\ IsError(result) /\ ~raised
    /\ run.failure # ""
    /\ load_analysis_result(files, dataset_id) # None
    /\ load_analysis_result(files, dataset_id).analysis_timestamp < result.analysis_timestamp

\* a request was answered by generate_mock_analysis and nothing is stored
MockAnswered ==
    /\ IsMock(response)
    /\ files = NoFiles

(***************************************************************************)
(* Properties of the integer arithmetic of the trend analyzer.             *)
(***************************************************************************)
\* time_numeric of the paired rows of column col
TimeNumeric(col) ==
    LET rows == PairedRows(TimeColumn, Column(df, col))
    IN  [p \in 1..Len(rows) |-> EpochNs(TimeColumn[rows[p]])] \o << >>

\* the sum of the times and the sum of their squares, nothing cut off
ExactSumX(xs) == SumW([i \in 1..Len(xs) |-> Widen(xs[i])] \o << >>)
ExactSumX2(xs) == SumW([i \in 1..Len(xs) |-> MulW(Widen(xs[i]), Widen(xs[i]))] \o << >>)

\* sum_x, sum_x2 and sum_x ** 2 as computed are the exact ones
SumsAreExact(xs) ==
    /\ Widen(Sum64(xs)) = ExactSumX(xs)
    /\ Widen(Sum64([i \in 1..Len(xs) |-> Mul64(xs[i], xs[i])] \o << >>)) = ExactSumX2(xs)
    /\ Widen(Mul64(Sum64(xs), Sum64(xs))) = MulW(ExactSumX(xs), ExactSumX(xs))

\* n * sum_x2 - sum_x ** 2 as computed is the exact one
DenominatorIsExact(xs) ==
    Widen(SlopeDenominator(Len(xs), xs))
        = SubW(ScaleW(ExactSumX2(xs), Len(xs)), MulW(ExactSumX(xs), ExactSumX(xs)))

\* the time column holds dates of the present day
PresentDayTimes == \E i \in 1..df.n : IsDate(TimeColumn[i])

\* C28: for a column with more than 10 timestamps of the present day, taken
\* as int64 nanoseconds since the epoch, sum_x, sum_x2 and sum_x ** 2 stay
\* within the signed 64-bit range, so the denominator of the slope is the
\* exact one (nothing wraps modulo 2^64).
C28_SumsFitInt64 ==
    (Succeeded /\ TimeColumnDetected /\ PresentDayTimes) =>
        \A k \in 1..Len(TrendColumns) :
            Cardinality(Pairs(TrendColumns[k])) > 10 =>
                /\ SumsAreExact(TimeNumeric(TrendColumns[k]))
                /\ DenominatorIsExact(TimeNumeric(TrendColumns[k]))

\* with times given as small numbers the sums are exact
SmallTimesAreExact ==
    (Succeeded /\ TimeColumnDetected /\ ~PresentDayTimes) =>
        \A k \in 1..Len(TrendColumns) :
            Cardinality(Pairs(TrendColumns[k])) > 10 =>
                /\ SumsAreExact(TimeNumeric(TrendColumns[k]))
                /\ DenominatorIsExact(TimeNumeric(TrendColumns[k]))

\* a fit was made over 200 dates and its denominator is not the exact one
DenominatorWrapped ==
    /\ Succeeded /\ TimeColumnDetected /\ PresentDayTimes
    /\ \E k \in 1..Len(TrendColumns) :
           /\ Cardinality(Pairs(TrendColumns[k])) = 200
           /\ HasStrength(TrendColumns[k])
           /\ ~DenominatorIsExact(TimeNumeric(TrendColumns[k]))
           /\ ~(Widen(Sum64(TimeNumeric(TrendColumns[k])))
                    = ExactSumX(TimeNumeric(TrendColumns[k])))

(***************************************************************************)
(* Properties of the DataService cache.                                    *)
(***************************************************************************)
\* the step is a get_cached_data call
CachedDataAsked == cache_call'.calls = cache_call.calls + 1

\* update_cache has completed, at most 5 minutes ago
UpdatedRecently ==
    /\ data_service.data_cache # EmptyDict
    /\ cache_call.utcnow - data_service.data_cache.last_update.minute <= CacheLifetime

\* C29: after update_cache has completed, get_cached_data(t) called within
\* 5 minutes returns the value cached for t (statistics, latest_data or
\* trend_data); called more than 5 minutes after the last update, or before
\* any update, it returns None.
C29_FreshCacheIsServed ==
    [][ (CachedDataAsked /\ cache_call'.data_type \in CachedTypes) =>
            cache_call'.returned =
                IF UpdatedRecently
                THEN data_service.data_cache[cache_call'.data_type]
                ELSE None ]_vars

\* get_cached_data returns None whenever it is called
NothingIsServed == [][CachedDataAsked => cache_call'.returned = None]_vars

\* self.last_update is None in every state
LastUpdateNeverSet == data_service.last_update = None

\* statistics were asked for two minutes after an update of the cache and
\* None was returned
FreshCacheNotServed ==
    /\ data_service.data_cache # EmptyDict
    /\ cache_call.utcnow - data_service.data_cache.last_update.minute = 2
    /\ cache_call.calls > 0
    /\ cache_call.data_type = "statistics"
    /\ cache_call.returned = None

(***************************************************************************)
(* Properties of the ConnectionManager.                                    *)
(***************************************************************************)
\* the websockets whose send_text raised in the broadcast just finished
SendFailed == Members(broadcast.disconnected)

\* a websocket has a subscriptions entry iff it is in active_connections
EntryIffActive ==
    DOMAIN manager.connection_subscriptions = Members(manager.active_connections)

\* after a broadcast no websocket whose send failed is left in the manager
FailedAreRemoved ==
    broadcast.pc = "done" =>
        \A w \in SendFailed :
            /\ w \notin Members(manager.active_connections)
            /\ w \notin DOMAIN manager.connection_subscriptions

\* no websocket is sent to twice in one broadcast
AtMostOneAttempt ==
    broadcast.pc # "idle" => \A w \in Sockets : broadcast.attempts[w] <= 1

\* C30: broadcast_to_topic attempts delivery exactly once to every
\* connection that is subscribed to the topic and stays connected for the
\* whole broadcast, also when disconnect() runs for other connections while
\* the broadcast is suspended at a send; afterwards every connection whose
\* send failed is absent from active_connections and from
\* connection_subscriptions, and a websocket has a subscriptions entry iff
\* it is in active_connections.
C30_DeliveredOnceToAll ==
    /\ EntryIffActive
    /\ FailedAreRemoved
    /\ broadcast.pc = "done" =>
           \A w \in broadcast.stayed : broadcast.attempts[w] = 1

\* a broadcast ended without an attempt for a websocket that was subscribed
\* and connected throughout
SubscriberSkipped ==
    /\ broadcast.pc = "done"
    /\ \E w \in broadcast.stayed :
           /\ broadcast.attempts[w] = 0
           /\ sockets[w] = "open"
           /\ IsSubscribed(manager, w, broadcast.topic)

\* a broadcast reached three subscribers, one of which had gone
AllReached ==
    /\ broadcast.pc = "done"
    /\ \A w \in Sockets : broadcast.attempts[w] = 1
    /\ Cardinality(SendFailed) = 1

====
